---------------------------- MODULE Spec2Model ----------------------------
(***************************************************************************)
(* Model of the news analysis pipeline of src/src/news_analyzer.py:        *)
(* NewsAnalyzer.__init__ / _setup_providers (the usable-provider chain)    *)
(* and NewsAnalyzer.analyze_news (the fallback walk over that chain, the   *)
(* translation step, the response parser and the local analyzer).          *)
(*                                                                         *)
(* Text is modelled as a sequence of one-character strings, so that the    *)
(* string operations of the code (lower, upper, split, strip, `in`,        *)
(* startswith, replace) are computed and not assumed.                      *)
(***************************************************************************)
EXTENDS Integers, Sequences, FiniteSets, TLC

VARIABLES
    \* ---- process environment and construction (NewsAnalyzer.__init__) ----
    env,                    \* os.environ: the credentials and ANALYSIS_ENABLED
    openai_imported,        \* FALSE when `from openai import OpenAI` failed (OpenAI = None)
    setup_pc,               \* position of the constructor
    sorted_providers,       \* _setup_providers: the registry sorted by priority
    setup_idx,              \* _setup_providers: position of the for loop
    probe_response,         \* what requests.get(health_url) did, once it was called
    probe_calls,            \* number of health probes sent so far
    ctor_failed,            \* the backends whose OpenAI(...) client construction raised
    init_raised,            \* TRUE when an exception left the constructor
    \* ---- the NewsAnalyzer object ----
    available_providers,    \* self.available_providers
    analysis_enabled,       \* self.analysis_enabled
    current_provider_index, \* self.current_provider_index
    \* ---- one analyze_news call ----
    pc,                     \* position of analyze_news
    idx,                    \* the for loop's position in available_providers (1-based)
    news_item,              \* the caller's article
    translated_item,        \* _analyze_with_openai_compatible: translated_item
    result,                 \* what analyze_news returned
    raised,                 \* TRUE when an exception left analyze_news
    last_error,             \* str(e) of the exception the except clause handled last
    requests,               \* generation requests sent during the call, in order
    attempts,               \* the finished attempts of the call: backend and outcome
    local_runs,             \* _local_analysis invocations during the call
    calls,                  \* analyze_news calls completed
    first_failed_before,    \* TRUE when, in a completed call, the first backend's attempt failed
    \* ---- one call of a helper method on its own ----
    fn_name,                \* the method called
    fn_arg,                 \* its argument
    fn_ret,                 \* what it returned, once it has
    \* ---- the scheduler process (scheduler.py) ----
    sched_pc,               \* position of scheduler.main
    sched_clock,            \* the wall clock, in minutes since midnight of the first day
    next_run,               \* schedule's next_run of each job, in minutes like sched_clock
    last_outcome            \* how the last run of the news agent ended

setup_vars == <<env, openai_imported, setup_pc, sorted_providers, setup_idx,
                probe_response, probe_calls, ctor_failed, init_raised>>
object_vars == <<available_providers, analysis_enabled, current_provider_index>>
call_vars == <<pc, idx, news_item, translated_item, result, raised, last_error,
               requests, attempts, local_runs, calls, first_failed_before>>
fn_vars == <<fn_name, fn_arg, fn_ret>>
sched_vars == <<sched_pc, sched_clock, next_run, last_outcome>>
vars == <<setup_vars, object_vars, call_vars, fn_vars, sched_vars>>

-----------------------------------------------------------------------------
(* Bounds of the model.                                                    *)

\* Most models the health probe's reply lists.
MaxModels == 2
\* Most analyze_news calls made on one analyzer.
MaxCalls == 2

-----------------------------------------------------------------------------
(* Python values.                                                          *)

\* Python's None, where a credential (an atomic string) is expected.
None == "<None>"
\* Python's None, where a text (a sequence of characters) is expected.
NoneText == <<"<None>">>

\* bool(s) of an optional string: None and '' are falsy.
Truthy(s) == s # None /\ s # ""

-----------------------------------------------------------------------------
(* Strings as sequences of characters.                                     *)

\* The letters that have two cases, among the characters the model uses.
UpperChars == <<"A","B","C","D","E","F","G","H","I","J","K","L","M",
                "N","O","P","Q","R","S","T","U","V","W","X","Y","Z",
                "Á","Â","Ã","É","Ê","Í","Ó","Õ","Ú","Ç">>
LowerChars == <<"a","b","c","d","e","f","g","h","i","j","k","l","m",
                "n","o","p","q","r","s","t","u","v","w","x","y","z",
                "á","â","ã","é","ê","í","ó","õ","ú","ç">>

\* The bullet character U+2022.
Bullet == "<bullet>"

\* str.lower() of one character.
LowerChar(c) ==
    IF \E k \in DOMAIN UpperChars : UpperChars[k] = c
    THEN LowerChars[CHOOSE k \in DOMAIN UpperChars : UpperChars[k] = c]
    ELSE c

\* str.upper() of one character.
UpperChar(c) ==
    IF \E k \in DOMAIN LowerChars : LowerChars[k] = c
    THEN UpperChars[CHOOSE k \in DOMAIN LowerChars : LowerChars[k] = c]
    ELSE c

\* s.lower()
Lower(s) == [k \in DOMAIN s |-> LowerChar(s[k])]

\* s.upper()
Upper(s) == [k \in DOMAIN s |-> UpperChar(s[k])]

\* s.startswith(p)
StartsWith(s, p) == Len(p) <= Len(s) /\ SubSeq(s, 1, Len(p)) = p

\* `sub in s`
Contains(sub, s) ==
    \E k \in 1..(Len(s) - Len(sub) + 1) : SubSeq(s, k, k + Len(sub) - 1) = sub

\* The characters str.split() and str.strip() treat as whitespace.
Whitespace == {" ", "\n", "\t", "\r"}

\* s.lstrip()
RECURSIVE LStrip(_)
LStrip(s) ==
    IF s # <<>> /\ s[1] \in Whitespace THEN LStrip(Tail(s)) ELSE s

\* s.rstrip()
RECURSIVE RStrip(_)
RStrip(s) ==
    IF s # <<>> /\ s[Len(s)] \in Whitespace THEN RStrip(SubSeq(s, 1, Len(s) - 1)) ELSE s

\* s.strip()
Strip(s) == RStrip(LStrip(s))

\* The length of the longest prefix of s that holds no character of seps.
RECURSIVE SpanLen(_, _)
SpanLen(s, seps) ==
    IF s = <<>> \/ s[1] \in seps THEN 0 ELSE 1 + SpanLen(Tail(s), seps)

\* s.split(sep) for a one-character sep: empty pieces are kept.
RECURSIVE SplitOn(_, _)
SplitOn(s, sep) ==
    LET n == SpanLen(s, {sep})
    IN IF n = Len(s) THEN <<s>>
       ELSE <<SubSeq(s, 1, n)>> \o SplitOn(SubSeq(s, n + 2, Len(s)), sep)

\* s.split(): pieces between runs of whitespace, no empty piece.
RECURSIVE SplitWords(_)
SplitWords(s) ==
    LET t == LStrip(s)
        n == SpanLen(t, Whitespace)
    IN IF t = <<>> THEN <<>>
       ELSE <<SubSeq(t, 1, n)>> \o SplitWords(SubSeq(t, n + 1, Len(t)))

\* s.replace(old, ''): every occurrence of old, left to right, is removed.
RECURSIVE Remove(_, _)
Remove(s, old) ==
    IF s = <<>> THEN <<>>
    ELSE IF StartsWith(s, old) THEN Remove(SubSeq(s, Len(old) + 1, Len(s)), old)
    ELSE <<s[1]>> \o Remove(Tail(s), old)

\* sep.join(parts)
RECURSIVE Join(_, _)
Join(parts, sep) ==
    IF parts = <<>> THEN <<>>
    ELSE IF Len(parts) = 1 THEN parts[1]
    ELSE parts[1] \o sep \o Join(Tail(parts), sep)

\* The number of elements of the sequence s that satisfy the set test.
RECURSIVE CountIn(_, _)
CountIn(s, set) ==
    IF s = <<>> THEN 0
    ELSE (IF s[1] \in set THEN 1 ELSE 0) + CountIn(Tail(s), set)

-----------------------------------------------------------------------------
(* The provider registry (NewsAnalyzer.__init__, self.providers).          *)

PlaceholderKey == "your_api_key_here"

\* What an API key variable of the environment can hold.
CredentialValues == {None, "", PlaceholderKey, "sk-live"}

\* What ANALYSIS_ENABLED can hold (None: the variable is not set).
EnabledValues == {NoneText, <<"T","r","u","e">>, <<"f","a","l","s","e">>, <<>>}

Envs ==
    [OPENROUTER_API_KEY : CredentialValues, GROQ_API_KEY : CredentialValues,
     TOGETHER_API_KEY : CredentialValues, HUGGINGFACE_API_KEY : CredentialValues,
     ANALYSIS_ENABLED : EnabledValues]

\* os.getenv(name, default)
getenv(e, name, default) == IF e[name] = NoneText THEN default ELSE e[name]

\* self.providers.items(): the registry in declaration order.
providers(e) ==
    << [name |-> "ollama",      api_key |-> "local",                  priority |-> 1],
       [name |-> "openrouter",  api_key |-> e.OPENROUTER_API_KEY,     priority |-> 2],
       [name |-> "groq",        api_key |-> e.GROQ_API_KEY,           priority |-> 3],
       [name |-> "together",    api_key |-> e.TOGETHER_API_KEY,       priority |-> 4],
       [name |-> "huggingface", api_key |-> e.HUGGINGFACE_API_KEY,    priority |-> 5] >>

ProviderNames == {"ollama", "openrouter", "groq", "together", "huggingface"}

\* The sort key of _setup_providers: x[1].get('priority', 999).
SortKeyDescending(p) == 0 - p.priority
priority_key(p) == p.priority

\* Insert p into the sorted sequence s after every element whose key is not
\* greater: sorted() is stable.
RECURSIVE insert_sorted(_, _)
insert_sorted(s, p) ==
    IF s = <<>> THEN <<p>>
    ELSE IF priority_key(p) < priority_key(s[Len(s)])
         THEN Append(insert_sorted(SubSeq(s, 1, Len(s) - 1), p), s[Len(s)])
         ELSE Append(s, p)

\* sorted(self.providers.items(), key=...)
RECURSIVE sorted_by_priority(_)
sorted_by_priority(s) ==
    IF s = <<>> THEN <<>>
    ELSE insert_sorted(sorted_by_priority(SubSeq(s, 1, Len(s) - 1)), s[Len(s)])

-----------------------------------------------------------------------------
(* The health probe (_check_ollama_availability).                          *)

\* What requests.get(health_url, timeout=5) and response.json() can do.
\* json_ok: the body is a JSON object; models: the length of its 'models'
\* array, -1 when the body has no 'models' key.
ProbeOutcomes ==
    {[kind |-> "exception", status |-> 0, json_ok |-> FALSE, models |-> 0],
     [kind |-> "timeout", status |-> 0, json_ok |-> FALSE, models |-> 0],
     [kind |-> "response", status |-> 404, json_ok |-> FALSE, models |-> 0],
     [kind |-> "response", status |-> 500, json_ok |-> TRUE, models |-> 1],
     [kind |-> "response", status |-> 200, json_ok |-> FALSE, models |-> 0]}
    \cup [kind : {"response"}, status : {200}, json_ok : {TRUE},
          models : -1..MaxModels]

NoProbe == [kind |-> "none", status |-> 0, json_ok |-> FALSE, models |-> 0]

\* What a block of code does: it returns a value or it raises.
Returns(v) == [ret |-> v, raises |-> FALSE]
Raises == [ret |-> FALSE, raises |-> TRUE]

ProbeIgnoresModelList(p) ==
    IF p.kind # "response" THEN Raises
    ELSE IF p.status = 200
         THEN IF ~p.json_ok THEN Raises ELSE Returns(TRUE)
         ELSE Returns(FALSE)

\* The try block of _check_ollama_availability (lines 72-85): requests.get
\* raises on a transport failure or a timeout, response.json() raises on a
\* body that is not JSON; .get('models', []) gives [] for a missing key.
probe_try_block(p) ==
    IF p.kind # "response" THEN Raises
    ELSE IF p.status = 200
         THEN IF ~p.json_ok THEN Raises
              ELSE IF p.models > 0 THEN Returns(TRUE) ELSE Returns(FALSE)
         ELSE Returns(FALSE)

\* _check_ollama_availability: `except Exception: return False`.
check_ollama_availability(p) ==
    IF probe_try_block(p).raises THEN Returns(FALSE) ELSE probe_try_block(p)

-----------------------------------------------------------------------------
(* _setup_providers: one iteration of the loop over sorted_providers.      *)

\* An entry of self.available_providers.
entry(p, type, client) ==
    [name |-> p.name, type |-> type, client |-> client, priority |-> p.priority]

CredentialNotChecked(key) == TRUE
\* The elif of line 115: the key is set and is not the placeholder.
credential_usable(key) == Truthy(key) /\ key # PlaceholderKey

\* avail after the iteration on provider p. lib: the OpenAI class was
\* imported; probe_ok: the health probe's answer; ctor_ok: OpenAI(...) did
\* not raise. OpenAI(...) with OpenAI = None raises TypeError, which the
\* except clause of the ollama branch absorbs.
setup_iteration(avail, p, lib, probe_ok, ctor_ok) ==
    IF p.name = "ollama"
    THEN IF probe_ok /\ lib /\ ctor_ok
         THEN Append(avail, entry(p, "openai_compatible", "client"))
         ELSE avail
    ELSE IF credential_usable(p.api_key)
         THEN IF p.name = "huggingface"
              THEN Append(avail, entry(p, "huggingface", None))
              ELSE IF lib /\ ctor_ok
                   THEN Append(avail, entry(p, "openai_compatible", "client"))
                   ELSE avail
         ELSE avail

\* The whole loop: ctor maps a provider name to whether its client could be
\* constructed.
RECURSIVE setup_loop(_, _, _, _, _)
setup_loop(avail, todo, lib, probe_ok, ctor) ==
    IF todo = <<>> THEN avail
    ELSE setup_loop(setup_iteration(avail, todo[1], lib, probe_ok, ctor[todo[1].name]),
                    Tail(todo), lib, probe_ok, ctor)

\* self.analysis_enabled (line 66).
analysis_enabled_of(e) ==
    Lower(getenv(e, "ANALYSIS_ENABLED", <<"t","r","u","e">>)) = <<"t","r","u","e">>

-----------------------------------------------------------------------------
(* Articles and dictionaries.                                              *)

\* d.get(key, default)
get(d, key, default) == IF key \in DOMAIN d THEN d[key] ELSE default

\* A copy of d with d[key] = value.
with_key(d, key, value) ==
    [k \in DOMAIN d \cup {key} |-> IF k = key THEN value ELSE d[k]]

-----------------------------------------------------------------------------
(* _is_portuguese and the translation step (_translate_news_item_simple).  *)

\* portuguese_words (line 328)
portuguese_words ==
    <<
       <<"d","e">>,
       <<"d","a">>,
       <<"d","o">>,
       <<"p","a","r","a">>,
       <<"c","o","m">>,
       <<"e","m">>,
       <<"p","o","r">>,
       <<"u","m","a">>,
       <<"u","m">>,
       <<"q","u","e">>,
       <<"n","ã","o">>,
       <<"s","ã","o">>,
       <<"c","o","m","o">>,
       <<"m","a","i","s">>,
       <<"s","o","b","r","e">>,
       <<"p","e","l","a">>,
       <<"p","e","l","o">> >>

\* The elements of a sequence, as a set.
Range(s) == {s[k] : k \in DOMAIN s}

IsPortugueseNeedsThree(text) ==
    LET words == SplitWords(Lower(text))
        portuguese_count == CountIn(words, Range(portuguese_words))
    IN portuguese_count >= 3 \/ Len(words) < 5

\* _is_portuguese(text)
is_portuguese(text) ==
    LET words == SplitWords(Lower(text))
        portuguese_count == CountIn(words, Range(portuguese_words))
    IN portuguese_count >= 2 \/ Len(words) < 5

\* The title and summary _translate_news_item_simple works on (lines 268-269).
translation_title(item) == get(item, "title", <<>>)
translation_summary(item) == get(item, "summary", get(item, "content", <<>>))

\* The test of line 272: nothing is translated.
already_portuguese(item) ==
    is_portuguese(translation_title(item)) /\ is_portuguese(translation_summary(item))

\* 'TÍTULO_TRADUZIDO:'
TituloPrefix ==
    <<"T","Í","T","U","L","O","_","T","R","A","D","U","Z","I","D","O",":">>
\* 'RESUMO_TRADUZIDO:'
ResumoPrefix ==
    <<"R","E","S","U","M","O","_","T","R","A","D","U","Z","I","D","O",":">>

\* The for loop of lines 309-313 over the lines of the reply: acc holds
\* translated_title and translated_summary.
RECURSIVE scan_translation(_, _)
scan_translation(lines, acc) ==
    IF lines = <<>> THEN acc
    ELSE LET line == lines[1]
         IN scan_translation(Tail(lines),
              IF StartsWith(line, TituloPrefix)
              THEN [acc EXCEPT !.title = Strip(Remove(line, TituloPrefix))]
              ELSE IF StartsWith(line, ResumoPrefix)
              THEN [acc EXCEPT !.summary = Strip(Remove(line, ResumoPrefix))]
              ELSE acc)

\* Lines 302-319: the translated copy of the article built from the reply.
parse_translation(item, translation_text) ==
    LET acc == scan_translation(SplitOn(translation_text, "\n"),
                                [title |-> translation_title(item),
                                 summary |-> translation_summary(item)])
    IN with_key(with_key(item, "title", acc.title), "summary", acc.summary)

-----------------------------------------------------------------------------
(* _create_analysis_prompt.                                                *)

\* 'N/A'
NA ==
    <<"N","/","A">>

PromptDefaultsEmpty(item) ==
    [title |-> get(item, "title", <<>>),
     content |-> get(item, "content", get(item, "summary", <<>>))]

\* The two values the fixed template embeds: the title and the body.
create_analysis_prompt(item) ==
    [title |-> get(item, "title", NA),
     content |-> get(item, "content", get(item, "summary", NA))]

-----------------------------------------------------------------------------
(* _parse_analysis_response.                                               *)

\* The markers of lines 380-382.
ResumoMarkers ==
    <<
       <<"#","#"," ","R","E","S","U","M","O"," ","E","X","E","C","U","T","I","V","O">>,
       <<"*","*","R","E","S","U","M","O"," ","E","X","E","C","U","T","I","V","O","*","*">>,
       <<"R","E","S","U","M","O"," ","E","X","E","C","U","T","I","V","O">> >>
\* The markers of lines 385-387.
PontosMarkers ==
    <<
       <<"#","#"," ","P","O","N","T","O","S","-","C","H","A","V","E">>,
       <<"#","#"," ","P","O","N","T","O","S"," ","C","H","A","V","E">>,
       <<"*","*","P","O","N","T","O","S","-","C","H","A","V","E","*","*">>,
       <<"*","*","P","O","N","T","O","S"," ","C","H","A","V","E","*","*">>,
       <<"P","O","N","T","O","S","-","C","H","A","V","E">>,
       <<"P","O","N","T","O","S"," ","C","H","A","V","E">> >>
\* The markers of lines 390-392.
NivelMarkers ==
    <<
       <<"#","#"," ","N","Í","V","E","L"," ","D","E"," ","R","E","L","E","V","Â","N","C","I","A">>,
       <<"#","#"," ","N","I","V","E","L"," ","D","E"," ","R","E","L","E","V","A","N","C","I","A">>,
       <<"*","*","N","Í","V","E","L"," ","D","E"," ","R","E","L","E","V","Â","N","C","I","A","*","*">>,
       <<"*","*","N","I","V","E","L"," ","D","E"," ","R","E","L","E","V","A","N","C","I","A","*","*">>,
       <<"N","Í","V","E","L"," ","D","E"," ","R","E","L","E","V","Â","N","C","I","A">>,
       <<"N","I","V","E","L"," ","D","E"," ","R","E","L","E","V","A","N","C","I","A">> >>
\* The markers of line 397.
SkipMarkers ==
    <<
       <<"R","E","S","U","M","O"," ","E","X","E","C","U","T","I","V","O">>,
       <<"P","O","N","T","O","S","-","C","H","A","V","E">>,
       <<"P","O","N","T","O","S"," ","C","H","A","V","E">>,
       <<"N","Í","V","E","L"," ","D","E"," ","R","E","L","E","V","Â","N","C","I","A">>,
       <<"N","I","V","E","L"," ","D","E"," ","R","E","L","E","V","A","N","C","I","A">> >>

\* any(marker in text for marker in markers)
AnyIn(markers, text) == \E k \in DOMAIN markers : Contains(markers[k], text)

NoSection == "none"

HeadingNeedsPrefix(line) ==
    LET u == Upper(line)
        prefixed(markers) == \E k \in 1..(Len(markers) - 1) : Contains(markers[k], u)
    IN IF prefixed(SubSeq(ResumoMarkers, 1, 3)) THEN "resumo_executivo"
       ELSE IF prefixed(SubSeq(PontosMarkers, 1, 5)) THEN "pontos_chave"
       ELSE IF prefixed(SubSeq(NivelMarkers, 1, 5)) THEN "nivel_relevancia"
       ELSE NoSection

\* The section a line switches to, NoSection when it is no heading
\* (the if / elif chain of lines 380-394).
heading_of(line) ==
    LET u == Upper(line)
    IN IF AnyIn(ResumoMarkers, u) THEN "resumo_executivo"
       ELSE IF AnyIn(PontosMarkers, u) THEN "pontos_chave"
       ELSE IF AnyIn(NivelMarkers, u) THEN "nivel_relevancia"
       ELSE NoSection

AppendsNoListItems(current_section, line) ==
    /\ current_section # NoSection
    /\ line # <<>>
    /\ ~StartsWith(line, <<"#","#">>)
    /\ ~StartsWith(line, <<"*","*">>)
    /\ ~StartsWith(line, <<"-">>)
    /\ ~AnyIn(SkipMarkers, Upper(line))

\* The last elif (lines 395-398): the line is appended to the current section.
appends(current_section, line) ==
    /\ current_section # NoSection
    /\ line # <<>>
    /\ ~StartsWith(line, <<"#","#">>)
    /\ ~StartsWith(line, <<"*","*">>)
    /\ ~AnyIn(SkipMarkers, Upper(line))

\* The for loop of lines 376-398.
RECURSIVE parse_scan(_, _, _)
parse_scan(lines, current_section, sections) ==
    IF lines = <<>> THEN sections
    ELSE LET line == Strip(lines[1])
             h == heading_of(line)
         IN IF h # NoSection
            THEN parse_scan(Tail(lines), h, sections)
            ELSE IF appends(current_section, line)
            THEN parse_scan(Tail(lines), current_section,
                            [sections EXCEPT ![current_section] = @ \o line \o <<"\n">>])
            ELSE parse_scan(Tail(lines), current_section, sections)

ParserStartsInResumo(analysis_text) ==
    LET sections == parse_scan(SplitOn(analysis_text, "\n"), "resumo_executivo",
                               [resumo_executivo |-> <<>>, pontos_chave |-> <<>>,
                                nivel_relevancia |-> <<>>])
    IN [k \in DOMAIN sections |-> Strip(sections[k])]

\* _parse_analysis_response(analysis_text)
parse_analysis_response(analysis_text) ==
    LET sections == parse_scan(SplitOn(analysis_text, "\n"), NoSection,
                               [resumo_executivo |-> <<>>, pontos_chave |-> <<>>,
                                nivel_relevancia |-> <<>>])
    IN [k \in DOMAIN sections |-> Strip(sections[k])]

-----------------------------------------------------------------------------
(* _local_analysis.                                                        *)

\* high_relevance_keywords (line 415)
high_relevance_keywords ==
    <<
       <<"o","p","e","n","a","i">>,
       <<"c","h","a","t","g","p","t">>,
       <<"c","l","a","u","d","e">>,
       <<"g","e","m","i","n","i">>,
       <<"b","r","e","a","k","t","h","r","o","u","g","h">>,
       <<"r","e","v","o","l","u","t","i","o","n","a","r","y">>,
       <<"b","i","l","l","i","o","n">>,
       <<"f","u","n","d","i","n","g">>,
       <<"i","p","o">>,
       <<"a","c","q","u","i","s","i","t","i","o","n">> >>
\* medium_relevance_keywords (line 416)
medium_relevance_keywords ==
    <<
       <<"a","i">>,
       <<"a","r","t","i","f","i","c","i","a","l"," ","i","n","t","e","l","l","i","g","e","n","c","e">>,
       <<"m","a","c","h","i","n","e"," ","l","e","a","r","n","i","n","g">>,
       <<"d","e","e","p"," ","l","e","a","r","n","i","n","g">>,
       <<"n","e","u","r","a","l">>,
       <<"a","l","g","o","r","i","t","h","m">>,
       <<"a","u","t","o","m","a","t","i","o","n">>,
       <<"r","o","b","o","t">> >>
\* low_relevance_keywords (line 417)
low_relevance_keywords ==
    <<
       <<"u","p","d","a","t","e">>,
       <<"m","i","n","o","r">>,
       <<"p","a","t","c","h">>,
       <<"b","u","g">>,
       <<"f","i","x">> >>

\* sum(1 for keyword in keywords if keyword in text)
keyword_count(keywords, text) ==
    Cardinality({k \in DOMAIN keywords : Contains(keywords[k], text)})

\* 'Alto - Contém múltiplas palavras-chave de alta relevância'
RelevanciaAlto ==
    <<"A","l","t","o"," ","-"," ","C","o","n","t","é","m"," ","m","ú","l","t","i","p",
      "l","a","s"," ","p","a","l","a","v","r","a","s","-","c","h","a","v","e"," ","d",
      "e"," ","a","l","t","a"," ","r","e","l","e","v","â","n","c","i","a">>
\* 'Médio - Relevância moderada para o setor de IA'
RelevanciaModerada ==
    <<"M","é","d","i","o"," ","-"," ","R","e","l","e","v","â","n","c","i","a"," ","m",
      "o","d","e","r","a","d","a"," ","p","a","r","a"," ","o"," ","s","e","t","o","r",
      " ","d","e"," ","I","A">>
\* 'Médio - Relacionado à inteligência artificial'
RelevanciaRelacionada ==
    <<"M","é","d","i","o"," ","-"," ","R","e","l","a","c","i","o","n","a","d","o"," ",
      "à"," ","i","n","t","e","l","i","g","ê","n","c","i","a"," ","a","r","t","i","f",
      "i","c","i","a","l">>
\* 'Baixo - Relevância limitada para IA'
RelevanciaBaixo ==
    <<"B","a","i","x","o"," ","-"," ","R","e","l","e","v","â","n","c","i","a"," ","l",
      "i","m","i","t","a","d","a"," ","p","a","r","a"," ","I","A">>

RelevanciaWithoutThirdRule(high_count, medium_count) ==
    IF high_count >= 2 THEN RelevanciaAlto
    ELSE IF high_count >= 1 \/ medium_count >= 3 THEN RelevanciaModerada
    ELSE RelevanciaBaixo

RelevanciaHighOnce(high_count, medium_count) ==
    IF high_count >= 1 THEN RelevanciaAlto
    ELSE IF medium_count >= 3 THEN RelevanciaModerada
    ELSE IF medium_count >= 1 THEN RelevanciaRelacionada
    ELSE RelevanciaBaixo

\* The classification of lines 426-433.
relevancia_of(high_count, medium_count) ==
    IF high_count >= 2 THEN RelevanciaAlto
    ELSE IF high_count >= 1 \/ medium_count >= 3 THEN RelevanciaModerada
    ELSE IF medium_count >= 1 THEN RelevanciaRelacionada
    ELSE RelevanciaBaixo

\* '• Desenvolvimento em OpenAI/ChatGPT'
PontoOpenAI ==
    <<Bullet," ","D","e","s","e","n","v","o","l","v","i","m","e","n","t","o"," ","e",
      "m"," ","O","p","e","n","A","I","/","C","h","a","t","G","P","T">>
\* '• Inovação do Google em IA'
PontoGoogle ==
    <<Bullet," ","I","n","o","v","a","ç","ã","o"," ","d","o"," ","G","o","o","g","l",
      "e"," ","e","m"," ","I","A">>
\* '• Iniciativa da Microsoft'
PontoMicrosoft ==
    <<Bullet," ","I","n","i","c","i","a","t","i","v","a"," ","d","a"," ","M","i","c",
      "r","o","s","o","f","t">>
\* '• Movimentação de investimentos'
PontoInvestimentos ==
    <<Bullet," ","M","o","v","i","m","e","n","t","a","ç","ã","o"," ","d","e"," ","i",
      "n","v","e","s","t","i","m","e","n","t","o","s">>
\* '• Aplicação empresarial'
PontoEmpresarial ==
    <<Bullet," ","A","p","l","i","c","a","ç","ã","o"," ","e","m","p","r","e","s","a",
      "r","i","a","l">>
\* '• Ferramentas para desenvolvedores'
PontoDesenvolvedores ==
    <<Bullet," ","F","e","r","r","a","m","e","n","t","a","s"," ","p","a","r","a"," ",
      "d","e","s","e","n","v","o","l","v","e","d","o","r","e","s">>

\* The six triggers of lines 437-448, in the order of the checks: the
\* keywords of each and the bullet it emits.
triggers ==
    <<
      [keywords |-> <<<<"o","p","e","n","a","i">>, <<"c","h","a","t","g","p","t">>>>,
       bullet |-> PontoOpenAI],
      [keywords |-> <<<<"g","o","o","g","l","e">>, <<"g","e","m","i","n","i">>>>,
       bullet |-> PontoGoogle],
      [keywords |-> <<<<"m","i","c","r","o","s","o","f","t">>>>,
       bullet |-> PontoMicrosoft],
      [keywords |-> <<<<"f","u","n","d","i","n","g">>, <<"i","n","v","e","s","t","m","e","n","t">>>>,
       bullet |-> PontoInvestimentos],
      [keywords |-> <<<<"e","n","t","e","r","p","r","i","s","e">>, <<"b","u","s","i","n","e","s","s">>>>,
       bullet |-> PontoEmpresarial],
      [keywords |-> <<<<"d","e","v","e","l","o","p","e","r">>, <<"a","p","i">>>>,
       bullet |-> PontoDesenvolvedores] >>

\* The fallback bullets of lines 451-455.
generic_pontos ==
    <<
       <<Bullet," ","N","o","t","í","c","i","a"," ","r","e","l","a","c","i","o","n","a","d","a"," ","à"," ","i","n","t","e","l","i","g","ê","n","c","i","a"," ","a","r","t","i","f","i","c","i","a","l">>,
       <<Bullet," ","P","o","t","e","n","c","i","a","l"," ","i","m","p","a","c","t","o"," ","n","o"," ","s","e","t","o","r"," ","d","e"," ","t","e","c","n","o","l","o","g","i","a">>,
       <<Bullet," ","R","e","l","e","v","a","n","t","e"," ","p","a","r","a"," ","a","c","o","m","p","a","n","h","a","m","e","n","t","o"," ","d","o"," ","m","e","r","c","a","d","o">> >>

RECURSIVE FirstTriggerOnly(_, _)
FirstTriggerOnly(todo, text) ==
    IF todo = <<>> THEN <<>>
    ELSE IF AnyIn(todo[1].keywords, text) THEN <<todo[1].bullet>>
    ELSE FirstTriggerOnly(Tail(todo), text)

\* Lines 436-448: the bullets of the triggers that fire, in check order.
RECURSIVE fired_pontos(_, _)
fired_pontos(todo, text) ==
    IF todo = <<>> THEN <<>>
    ELSE (IF AnyIn(todo[1].keywords, text) THEN <<todo[1].bullet>> ELSE <<>>)
         \o fired_pontos(Tail(todo), text)

\* pontos_chave after line 455.
pontos_of(text) ==
    IF fired_pontos(triggers, text) = <<>> THEN generic_pontos
    ELSE fired_pontos(triggers, text)

\* 'Análise local da notícia: '
ResumoIntro ==
    <<"A","n","á","l","i","s","e"," ","l","o","c","a","l"," ","d","a"," ","n","o","t",
      "í","c","i","a",":"," ">>
\* 'Esta notícia apresenta desenvolvimentos significativos em IA com potencial impacto no mercado. '
ResumoHigh ==
    <<"E","s","t","a"," ","n","o","t","í","c","i","a"," ","a","p","r","e","s","e","n",
      "t","a"," ","d","e","s","e","n","v","o","l","v","i","m","e","n","t","o","s"," ",
      "s","i","g","n","i","f","i","c","a","t","i","v","o","s"," ","e","m"," ","I","A",
      " ","c","o","m"," ","p","o","t","e","n","c","i","a","l"," ","i","m","p","a","c",
      "t","o"," ","n","o"," ","m","e","r","c","a","d","o","."," ">>
\* 'Esta notícia aborda temas relevantes de inteligência artificial. '
ResumoMedium ==
    <<"E","s","t","a"," ","n","o","t","í","c","i","a"," ","a","b","o","r","d","a"," ",
      "t","e","m","a","s"," ","r","e","l","e","v","a","n","t","e","s"," ","d","e"," ",
      "i","n","t","e","l","i","g","ê","n","c","i","a"," ","a","r","t","i","f","i","c",
      "i","a","l","."," ">>
\* 'Esta notícia tem conexão com tecnologia e pode ser de interesse. '
ResumoNone ==
    <<"E","s","t","a"," ","n","o","t","í","c","i","a"," ","t","e","m"," ","c","o","n",
      "e","x","ã","o"," ","c","o","m"," ","t","e","c","n","o","l","o","g","i","a"," ",
      "e"," ","p","o","d","e"," ","s","e","r"," ","d","e"," ","i","n","t","e","r","e",
      "s","s","e","."," ">>
\* 'Recomenda-se acompanhamento para avaliar oportunidades de aplicação em negócios e desenvolvimento.'
ResumoClosing ==
    <<"R","e","c","o","m","e","n","d","a","-","s","e"," ","a","c","o","m","p","a","n",
      "h","a","m","e","n","t","o"," ","p","a","r","a"," ","a","v","a","l","i","a","r",
      " ","o","p","o","r","t","u","n","i","d","a","d","e","s"," ","d","e"," ","a","p",
      "l","i","c","a","ç","ã","o"," ","e","m"," ","n","e","g","ó","c","i","o","s"," ",
      "e"," ","d","e","s","e","n","v","o","l","v","i","m","e","n","t","o",".">>
\* 'Resumo não disponível'
ResumoNaoDisponivel ==
    <<"R","e","s","u","m","o"," ","n","ã","o"," ","d","i","s","p","o","n","í","v","e",
      "l">>
\* 'local'
MetodoLocal ==
    <<"l","o","c","a","l">>

\* The clause of lines 459-464.
resumo_clause(high_count, medium_count) ==
    IF high_count > 0 THEN ResumoHigh
    ELSE IF medium_count > 0 THEN ResumoMedium
    ELSE ResumoNone

\* _local_analysis(news_item)
local_analysis(item) ==
    LET title == get(item, "title", NA)
        content == get(item, "content", get(item, "summary", <<>>))
        text_lower == Lower(title \o <<" ">> \o content)
        high_count == keyword_count(high_relevance_keywords, text_lower)
        medium_count == keyword_count(medium_relevance_keywords, text_lower)
    IN [resumo_executivo |->
            ResumoIntro \o title \o <<".", " ">>
            \o resumo_clause(high_count, medium_count) \o ResumoClosing,
        pontos_chave |-> Join(pontos_of(text_lower), <<"\n">>),
        nivel_relevancia |-> relevancia_of(high_count, medium_count),
        titulo_traduzido |-> title,
        resumo_traduzido |-> get(item, "summary", ResumoNaoDisponivel),
        metodo_analise |-> MetodoLocal]

-----------------------------------------------------------------------------
(* The results of the two backend paths.                                   *)

\* Lines 220-227 of _analyze_with_openai_compatible: the parsed reply with
\* the translated title and summary and the provider marker.
openai_result(item, translated, analysis_text, provider_name) ==
    LET parsed == parse_analysis_response(analysis_text)
    IN [resumo_executivo |-> parsed.resumo_executivo,
        pontos_chave |-> parsed.pontos_chave,
        nivel_relevancia |-> parsed.nivel_relevancia,
        titulo_traduzido |-> get(translated, "title", get(item, "title", <<>>)),
        resumo_traduzido |-> get(translated, "summary", get(item, "summary", <<>>)),
        provedor_usado |-> provider_name]

\* The slice lengths of _analyze_with_huggingface.
HFContentLimit == 500
HFSummaryLimit == 200

\* s[:n]
Prefix(s, n) == SubSeq(s, 1, IF Len(s) < n THEN Len(s) ELSE n)

\* '• Análise via Hugging Face\n• Conteúdo processado automaticamente\n• Relevante para IA e tecnologia'
HFPontos ==
    <<Bullet," ","A","n","á","l","i","s","e"," ","v","i","a"," ","H","u","g","g","i",
      "n","g"," ","F","a","c","e","\n",Bullet," ","C","o","n","t","e","ú","d","o"," ",
      "p","r","o","c","e","s","s","a","d","o"," ","a","u","t","o","m","a","t","i","c",
      "a","m","e","n","t","e","\n",Bullet," ","R","e","l","e","v","a","n","t","e"," ",
      "p","a","r","a"," ","I","A"," ","e"," ","t","e","c","n","o","l","o","g","i","a">>
\* 'Médio - Análise automática via Hugging Face'
HFNivel ==
    <<"M","é","d","i","o"," ","-"," ","A","n","á","l","i","s","e"," ","a","u","t","o",
      "m","á","t","i","c","a"," ","v","i","a"," ","H","u","g","g","i","n","g"," ","F",
      "a","c","e">>

\* The prompt of _analyze_with_huggingface (lines 235-238): the title and
\* the first 500 characters of the body.
huggingface_prompt(item) ==
    [title |-> get(item, "title", <<>>),
     content |-> Prefix(get(item, "content", get(item, "summary", <<>>)), HFContentLimit)]

HuggingFaceMarksLocal(item, generated_text) ==
    [resumo_executivo |->
        IF Len(generated_text) > HFSummaryLimit
        THEN Prefix(generated_text, HFSummaryLimit) \o <<".", ".", ".">>
        ELSE generated_text,
     pontos_chave |-> HFPontos,
     nivel_relevancia |-> HFNivel,
     titulo_traduzido |-> get(item, "title", <<>>),
     resumo_traduzido |-> get(item, "summary", ResumoNaoDisponivel),
     metodo_analise |-> MetodoLocal]
\* The dictionary of lines 255-261.
huggingface_result(item, generated_text) ==
    [resumo_executivo |->
        IF Len(generated_text) > HFSummaryLimit
        THEN Prefix(generated_text, HFSummaryLimit) \o <<".", ".", ".">>
        ELSE generated_text,
     pontos_chave |-> HFPontos,
     nivel_relevancia |-> HFNivel,
     titulo_traduzido |-> get(item, "title", <<>>),
     resumo_traduzido |-> get(item, "summary", ResumoNaoDisponivel)]

-----------------------------------------------------------------------------
(* The constructor, step by step (specification SpecSetup).                *)

\* The call variables while no analyze_news call is running.
NoItem == [title |-> <<>>]
NoResult == [none |-> TRUE]
NoCall ==
    /\ pc = "idle"
    /\ idx = 0
    /\ news_item = NoItem
    /\ translated_item = NoItem
    /\ result = NoResult
    /\ raised = FALSE
    /\ last_error = NoneText
    /\ requests = <<>>
    /\ attempts = <<>>
    /\ local_runs = 0
    /\ calls = 0
    /\ first_failed_before = FALSE

\* The helper-call variables while no helper is called on its own.
NoReturn == [returned |-> FALSE]
\* scheduler.py is not running.
NoSched ==
    /\ sched_pc = "off"
    /\ sched_clock = 0
    /\ next_run = <<>>
    /\ last_outcome = "none"

NoFn ==
    /\ fn_name = "none"
    /\ fn_arg = NoItem
    /\ fn_ret = NoReturn

\* The process before NewsAnalyzer() is called.
SetupInit ==
    /\ env \in Envs
    /\ openai_imported \in BOOLEAN
    /\ setup_pc = "new"
    /\ sorted_providers = <<>>
    /\ setup_idx = 0
    /\ probe_response = NoProbe
    /\ probe_calls = 0
    /\ ctor_failed = {}
    /\ init_raised = FALSE
    /\ available_providers = <<>>
    /\ analysis_enabled = FALSE
    /\ current_provider_index = 0
    /\ NoCall
    /\ NoSched
    /\ NoFn

\* __init__ up to the for loop of _setup_providers: the registry is built
\* and sorted, available_providers starts empty.
SetupSort ==
    /\ setup_pc = "new"
    /\ sorted_providers' = sorted_by_priority(providers(env))
    /\ available_providers' = <<>>
    /\ setup_idx' = 1
    /\ setup_pc' = "loop"
    /\ UNCHANGED <<sched_vars, fn_vars, env, openai_imported, probe_response, probe_calls, ctor_failed,
                   init_raised, analysis_enabled, current_provider_index, call_vars>>

\* The iteration on ollama: the health probe is sent, and on a positive
\* answer the client is constructed. An exception leaving the probe would
\* leave _setup_providers and the constructor.
SetupOllama ==
    /\ setup_pc = "loop"
    /\ setup_idx <= Len(sorted_providers)
    /\ sorted_providers[setup_idx].name = "ollama"
    /\ \E probe \in ProbeOutcomes, ctor_ok \in BOOLEAN :
          LET answer == check_ollama_availability(probe)
              constructs == ~answer.raises /\ answer.ret /\ openai_imported
          IN /\ constructs \/ ctor_ok
             /\ probe_response' = probe
             /\ probe_calls' = probe_calls + 1
             /\ init_raised' = answer.raises
             /\ setup_pc' = IF answer.raises THEN "raised" ELSE setup_pc
             /\ ctor_failed' = IF constructs /\ ~ctor_ok
                               THEN ctor_failed \cup {"ollama"} ELSE ctor_failed
             /\ available_providers' =
                   IF answer.raises THEN available_providers
                   ELSE setup_iteration(available_providers, sorted_providers[setup_idx],
                                        openai_imported, answer.ret, ctor_ok)
    /\ setup_idx' = setup_idx + 1
    /\ UNCHANGED <<sched_vars, fn_vars, env, openai_imported, sorted_providers,
                   analysis_enabled, current_provider_index, call_vars>>

\* The iteration on a hosted backend: the credential is checked and the
\* entry appended (with a client, for the OpenAI-compatible ones).
SetupHosted ==
    /\ setup_pc = "loop"
    /\ setup_idx <= Len(sorted_providers)
    /\ sorted_providers[setup_idx].name # "ollama"
    /\ \E ctor_ok \in BOOLEAN :
          LET p == sorted_providers[setup_idx]
              constructs == /\ credential_usable(p.api_key)
                            /\ p.name # "huggingface"
                            /\ openai_imported
          IN /\ constructs \/ ctor_ok
             /\ ctor_failed' = IF constructs /\ ~ctor_ok
                               THEN ctor_failed \cup {p.name} ELSE ctor_failed
             /\ available_providers' =
                   setup_iteration(available_providers, p, openai_imported, FALSE, ctor_ok)
    /\ setup_idx' = setup_idx + 1
    /\ UNCHANGED <<sched_vars, fn_vars, env, openai_imported, setup_pc, sorted_providers, probe_response,
                   probe_calls, init_raised, analysis_enabled, current_provider_index,
                   call_vars>>

\* After the loop: the summary is logged, then analysis_enabled and
\* current_provider_index are set (lines 66-67) and the constructor returns.
SetupFinish ==
    /\ setup_pc = "loop"
    /\ setup_idx > Len(sorted_providers)
    /\ analysis_enabled' = analysis_enabled_of(env)
    /\ current_provider_index' = 0
    /\ setup_pc' = "ready"
    /\ UNCHANGED <<sched_vars, fn_vars, env, openai_imported, sorted_providers, setup_idx, probe_response,
                   probe_calls, ctor_failed, init_raised, available_providers, call_vars>>

SetupNext == SetupSort \/ SetupOllama \/ SetupHosted \/ SetupFinish

SpecSetup == SetupInit /\ [][SetupNext]_vars

-----------------------------------------------------------------------------
(* The inputs of analyze_news: articles, and what the backends answer.     *)

\* An article in English: three high-tier keywords, a translation is requested.
ArticleEN ==
    [title |->
        <<"O","p","e","n","A","I"," ","r","a","i","s","e","s"," ","f","u","n","d","i",
          "n","g"," ","f","o","r"," ","C","h","a","t","G","P","T"," ","d","e","v","e",
          "l","o","p","e","r","s">>,
     content |->
        <<"C","h","a","t","G","P","T"," ","m","a","k","e","r"," ","O","p","e","n","A",
          "I"," ","s","a","i","d"," ","t","h","e"," ","A","P","I"," ","b","u","s","i",
          "n","e","s","s"," ","g","r","o","w","s">>,
     summary |->
        <<"C","h","a","t","G","P","T"," ","m","a","k","e","r"," ","O","p","e","n","A",
          "I"," ","s","a","i","d"," ","i","t">>]

\* An article in Portuguese: one high-tier keyword.
ArticlePT ==
    [title |->
        <<"N","o","v","o"," ","m","o","d","e","l","o"," ","d","e"," ","I","A"," ","p",
          "a","r","a"," ","u","m","a"," ","e","m","p","r","e","s","a">>,
     content |->
        <<"U","m"," ","r","o","b","o","t"," ","G","e","m","i","n","i"," ","c","o","m",
          " ","m","a","c","h","i","n","e"," ","l","e","a","r","n","i","n","g">>,
     summary |->
        <<"R","e","s","u","m","o"," ","d","e"," ","I","A"," ","p","a","r","a"," ","t",
          "o","d","o","s">>]

\* A short article with no 'summary' key and no high or medium keyword.
ArticleLow ==
    [title |->
        <<"M","i","n","o","r"," ","p","a","t","c","h">>,
     content |->
        <<"S","m","a","l","l"," ","u","p","d","a","t","e">>]

\* The article of the spec's translation-skip example, in Portuguese: of its
\* title's six words only 'de' is in portuguese_words.
ArticleBR ==
    [title |->
        <<"R","e","l","a","t","ó","r","i","o"," ","d","e"," ","I","A"," ","n","o"," ",
          "m","e","r","c","a","d","o"," ","b","r","a","s","i","l","e","i","r","o">>,
     content |->
        <<"U","m"," ","e","s","t","u","d","o"," ","s","o","b","r","e"," ","o"," ","m",
          "e","r","c","a","d","o"," ","d","e"," ","I","A">>,
     summary |->
        <<"R","e","s","u","m","o"," ","d","e"," ","u","m"," ","e","s","t","u","d","o",
          " ","p","a","r","a"," ","t","o","d","o","s">>]

Articles == {ArticleEN, ArticlePT, ArticleLow, ArticleBR}

\* 'Error code: 429'
ErrRateCode ==
    <<"E","r","r","o","r"," ","c","o","d","e",":"," ","4","2","9">>
\* 'Rate limit reached'
ErrRateText ==
    <<"R","a","t","e"," ","l","i","m","i","t"," ","r","e","a","c","h","e","d">>
\* 'Connection error'
ErrConnection ==
    <<"C","o","n","n","e","c","t","i","o","n"," ","e","r","r","o","r">>
\* "'NoneType' object has no attribute 'split'"
ErrNoneType ==
    <<"'","N","o","n","e","T","y","p","e","'"," ","o","b","j","e","c","t"," ","h","a",
      "s"," ","n","o"," ","a","t","t","r","i","b","u","t","e"," ","'","s","p","l","i",
      "t","'">>

\* str(e) of the exceptions a generation request raises.
ErrorMessages == {ErrRateCode, ErrRateText, ErrConnection}

\* '## RESUMO EXECUTIVO\nBom\n\n## PONTOS-CHAVE\n- um\n- dois\n\n## NÍVEL DE RELEVÂNCIA\nAlto - ok\n'
WellFormedReply ==
    <<"#","#"," ","R","E","S","U","M","O"," ","E","X","E","C","U","T","I","V","O","\n",
      "B","o","m","\n","\n","#","#"," ","P","O","N","T","O","S","-","C","H","A","V","E",
      "\n","-"," ","u","m","\n","-"," ","d","o","i","s","\n","\n","#","#"," ","N","Í",
      "V","E","L"," ","D","E"," ","R","E","L","E","V","Â","N","C","I","A","\n","A","l",
      "t","o"," ","-"," ","o","k","\n">>
\* 'Sorry, no analysis'
HeadlessReply ==
    <<"S","o","r","r","y",","," ","n","o"," ","a","n","a","l","y","s","i","s">>
\* 'TÍTULO_TRADUZIDO: OpenAI capta\nRESUMO_TRADUZIDO: Resumo novo'
FullTranslation ==
    <<"T","Í","T","U","L","O","_","T","R","A","D","U","Z","I","D","O",":"," ","O","p",
      "e","n","A","I"," ","c","a","p","t","a","\n","R","E","S","U","M","O","_","T","R",
      "A","D","U","Z","I","D","O",":"," ","R","e","s","u","m","o"," ","n","o","v","o">>
\* 'Claro!\nTÍTULO_TRADUZIDO: OpenAI capta'
TitleOnlyTranslation ==
    <<"C","l","a","r","o","!","\n","T","Í","T","U","L","O","_","T","R","A","D","U","Z",
      "I","D","O",":"," ","O","p","e","n","A","I"," ","c","a","p","t","a">>
\* 'Texto gerado'
HFShortText ==
    <<"T","e","x","t","o"," ","g","e","r","a","d","o">>

\* A generated text one character longer than the slice of line 256.
HFLongText == [k \in 1..(HFSummaryLimit + 1) |-> "x"]

\* What provider['client'].chat.completions.create does for the analysis
\* request: it raises, or response.choices[0].message.content is a text or None.
AnalysisOutcomes ==
    [kind : {"raise"}, text : ErrorMessages]
    \cup [kind : {"reply"}, text : {WellFormedReply, HeadlessReply, NoneText}]

\* The same for the translation request.
TranslationOutcomes ==
    [kind : {"raise"}, text : {ErrConnection}]
    \cup [kind : {"reply"}, text : {FullTranslation, TitleOnlyTranslation, NoneText}]

\* What requests.post and response.json() do for the Hugging Face request:
\* an exception, a status other than 200, a body that is no non-empty list,
\* or a list whose first element carries generated_text.
HuggingFaceOutcomes ==
    [kind : {"raise"}, text : ErrorMessages]
    \cup [kind : {"status_503", "empty_list", "not_a_list"}, text : {<<>>}]
    \cup [kind : {"generated"}, text : {HFShortText, HFLongText}]

-----------------------------------------------------------------------------
(* analyze_news and the two backend paths, step by step (specification     *)
(* Spec). The analyzer is constructed; the environment and the locals of   *)
(* the constructor are not read again and are not tracked.                 *)

NoEnv == [unread |-> TRUE]

\* Every available_providers the constructor can produce, over all API
\* keys, import outcomes, probe answers and client constructions; the list
\* does not depend on ANALYSIS_ENABLED.
ConstructedLists ==
    {setup_loop(<<>>, sorted_by_priority(providers(e)), lib, probe.ret, ctor) :
        e \in {x \in Envs : x.ANALYSIS_ENABLED = NoneText}, lib \in BOOLEAN,
        probe \in {check_ollama_availability(p) : p \in ProbeOutcomes},
        ctor \in [ProviderNames -> BOOLEAN]}

\* Every analysis_enabled the constructor can produce.
ConstructedFlags == {analysis_enabled_of(e) : e \in Envs}

\* The state after NewsAnalyzer() returned: one health probe was sent.
Init ==
    /\ env = NoEnv
    /\ openai_imported = FALSE
    /\ setup_pc = "ready"
    /\ sorted_providers = <<>>
    /\ setup_idx = 0
    /\ probe_response = NoProbe
    /\ probe_calls = 1
    /\ ctor_failed = {}
    /\ init_raised = FALSE
    /\ available_providers \in ConstructedLists
    /\ analysis_enabled \in ConstructedFlags
    /\ current_provider_index = 0
    /\ NoCall
    /\ NoSched
    /\ NoFn

ExceptReraisesOther(message) ==
    IF Contains(<<"4","2","9">>, message) \/ Contains(<<"r","a","t","e">>, Lower(message))
    THEN "continue"
    ELSE "raise"

\* The except clause of analyze_news (lines 173-181): on a rate-limit
\* signal `continue`, otherwise the error is logged and the clause ends;
\* both reach the next iteration of the for loop.
except_clause(message) ==
    IF Contains(<<"4","2","9">>, message) \/ Contains(<<"r","a","t","e">>, Lower(message))
    THEN "continue"
    ELSE "end_of_clause"

AnalysisNeverSkipped(enabled) == FALSE
\* The test of line 155: the backends are skipped.
analysis_skipped(enabled) == ~enabled

\* The test of line 169, `if result:`: None and {} are falsy.
result_truthy(r) == r # NoResult /\ DOMAIN r # {}

FallbackReturnsNone(item) == NoResult
FallbackOnTranslated(item) == local_analysis(translated_item)
\* Lines 183-185: what analyze_news returns after the loop.
fallback_result(item) == local_analysis(item)

\* A generation request as the log keeps it, with how it ended for the
\* caller: "raise" when the call raised or its reply had no content to
\* work on (the next statement, `.split`, raises), else "reply".
request(provider_name, kind, prompt, outcome) ==
    [to |-> provider_name, kind |-> kind, prompt |-> prompt,
     answer |-> IF outcome.kind = "raise" \/ outcome.text = NoneText
                THEN "raise" ELSE "reply"]

\* analyze_news is called while analysis is disabled (lines 153-157).
CallDisabled ==
    /\ pc = "idle"
    /\ calls < MaxCalls
    /\ analysis_skipped(analysis_enabled)
    /\ \E item \in Articles :
          /\ news_item' = item
          /\ result' = local_analysis(item)
    /\ local_runs' = local_runs + 1
    /\ pc' = "returned"
    /\ UNCHANGED <<sched_vars, fn_vars, setup_vars, object_vars, idx, translated_item, raised, last_error,
                   requests, attempts, calls, first_failed_before>>

\* analyze_news is called while analysis is enabled: the for loop starts.
CallEnabled ==
    /\ pc = "idle"
    /\ calls < MaxCalls
    /\ ~analysis_skipped(analysis_enabled)
    /\ \E item \in Articles : news_item' = item
    /\ idx' = 1
    /\ pc' = "loop"
    /\ UNCHANGED <<sched_vars, fn_vars, setup_vars, object_vars, translated_item, result, raised, last_error,
                   requests, attempts, local_runs, calls, first_failed_before>>

ProviderAtReversed(i) == available_providers[Len(available_providers) + 1 - i]
\* enumerate(self.available_providers): the backend of iteration i.
provider_at(i) == available_providers[i]

TranslationSentToCurrent(i) == provider_at(i)
\* Line 278: the backend the translation request goes to, whichever backend
\* the attempt in progress is on.
translation_provider(i) == available_providers[1]

TranslationSparesLocal(item) ==
    /\ ~already_portuguese(item)
    /\ available_providers # <<>>
    /\ available_providers[1].type = "openai_compatible"
    /\ available_providers[1].name # "ollama"
\* Lines 272-279: a translation request is sent for the article.
translation_requested(item) ==
    /\ ~already_portuguese(item)
    /\ available_providers # <<>>
    /\ available_providers[1].type = "openai_compatible"

TranslationNeverSkipped(provider) == FALSE
\* The test of line 191: for ollama the translation step is not run and
\* translated_item is news_item (line 194).
translation_skipped_for(provider) == provider.name = "ollama"

\* An iteration of the for loop starts (lines 160-167) and runs up to its
\* first request: the Hugging Face request, the translation request of
\* _translate_news_item_simple, or the analysis request when nothing is
\* translated (the backend is ollama, or line 272 or 279 skips it).
StartAttempt ==
    /\ pc = "loop"
    /\ idx <= Len(available_providers)
    /\ LET provider == provider_at(idx)
       IN IF provider.type = "huggingface"
          THEN /\ pc' = "huggingface_request"
               /\ UNCHANGED translated_item
          ELSE IF ~translation_skipped_for(provider) /\ translation_requested(news_item)
          THEN /\ pc' = "translation_request"
               /\ UNCHANGED translated_item
          ELSE /\ pc' = "analysis_request"
               /\ translated_item' = news_item
    /\ UNCHANGED <<sched_vars, fn_vars, setup_vars, object_vars, idx, news_item, result, raised, last_error,
                   requests, attempts, local_runs, calls, first_failed_before>>

TranslationFailureLosesItem(item, outcome) ==
    IF outcome.kind = "reply" /\ outcome.text # NoneText
    THEN parse_translation(item, outcome.text)
    ELSE NoItem
\* What _translate_news_item_simple returns once its request was sent: the
\* translated copy (line 319), or news_item when the try block raised
\* (lines 321-324).
translation_result(item, outcome) ==
    IF outcome.kind = "reply" /\ outcome.text # NoneText
    THEN parse_translation(item, outcome.text)
    ELSE item

\* The caller's record after _translate_news_item_simple has run: the translated
\* title and summary are assigned to news_item.copy() (lines 315-317), so the
\* record the caller passed keeps its keys and values.
TranslationWritesThrough(item, translated) == translated

news_item_after_translation(item, translated) == item

\* The translation request (lines 292-319) and what comes back: a reply
\* gives the translated copy; an exception, also the one of `.split` on a
\* reply without content, is absorbed at line 321 and the article is kept.
TranslationRequest ==
    /\ pc = "translation_request"
    /\ \E outcome \in TranslationOutcomes :
          /\ requests' = Append(requests,
                                request(translation_provider(idx).name, "translation",
                                        [title |-> translation_title(news_item),
                                         content |-> translation_summary(news_item)],
                                        outcome))
          /\ translated_item' = translation_result(news_item, outcome)
          /\ news_item' = news_item_after_translation(news_item, translated_item')
    /\ pc' = "analysis_request"
    /\ UNCHANGED <<sched_vars, fn_vars, setup_vars, object_vars, idx, result, raised, last_error,
                   attempts, local_runs, calls, first_failed_before>>

RetrySameProvider(i) == i
\* The for loop of line 160 moves to the next element of
\* enumerate(self.available_providers) once an iteration is over.
next_position(i) == i + 1

DemoteFailedProvider(avail, i) ==
    SubSeq(avail, 1, i - 1) \o SubSeq(avail, i + 1, Len(avail)) \o <<avail[i]>>
DropFailedProvider(avail, i) == SubSeq(avail, 1, i - 1) \o SubSeq(avail, i + 1, Len(avail))
\* self.available_providers after the except clause (lines 173-181) handled
\* the failure of the backend at position i: the clause assigns nothing to
\* it, the backend stays in the list.
providers_after_failure(avail, i) == avail

\* The attempt on provider_at(idx) ended with an exception that reached the
\* except clause of analyze_news.
AttemptRaised(message) ==
    /\ last_error' = message
    /\ available_providers' = providers_after_failure(available_providers, idx)
    /\ attempts' = Append(attempts, [provider |-> provider_at(idx).name,
                                     outcome |-> "raised"])
    /\ IF except_clause(message) = "raise"
       THEN /\ raised' = TRUE
            /\ pc' = "raised"
            /\ UNCHANGED idx
       ELSE /\ pc' = "loop"
            /\ idx' = next_position(idx)
            /\ UNCHANGED raised
    /\ UNCHANGED result

\* The attempt gave the value r to line 169: a truthy one is returned, a
\* falsy one lets the loop go on.
AttemptGave(r) ==
    /\ attempts' = Append(attempts, [provider |-> provider_at(idx).name,
                                     outcome |-> IF r = NoResult THEN "none" ELSE "result"])
    /\ IF result_truthy(r)
       THEN /\ result' = r
            /\ pc' = "returned"
            /\ UNCHANGED idx
       ELSE /\ pc' = "loop"
            /\ idx' = next_position(idx)
            /\ UNCHANGED result
    /\ UNCHANGED <<raised, last_error, available_providers>>

\* The analysis request of _analyze_with_openai_compatible (lines 197-227).
\* A reply without content makes _parse_analysis_response raise.
AnalysisRequest ==
    /\ pc = "analysis_request"
    /\ \E outcome \in AnalysisOutcomes :
          /\ requests' = Append(requests,
                                request(provider_at(idx).name, "analysis",
                                        create_analysis_prompt(translated_item), outcome))
          /\ IF outcome.kind = "raise" THEN AttemptRaised(outcome.text)
             ELSE IF outcome.text = NoneText THEN AttemptRaised(ErrNoneType)
             ELSE AttemptGave(openai_result(news_item, translated_item, outcome.text,
                                            provider_at(idx).name))
    /\ UNCHANGED <<sched_vars, fn_vars, setup_vars, analysis_enabled, current_provider_index,
                   news_item, translated_item, local_runs, calls, first_failed_before>>

\* The request of _analyze_with_huggingface (lines 232-263).
HuggingFaceRequest ==
    /\ pc = "huggingface_request"
    /\ \E outcome \in HuggingFaceOutcomes :
          /\ requests' = Append(requests,
                                request(provider_at(idx).name, "analysis",
                                        huggingface_prompt(news_item), outcome))
          /\ IF outcome.kind = "raise" THEN AttemptRaised(outcome.text)
             ELSE IF outcome.kind = "generated"
             THEN AttemptGave(huggingface_result(news_item, outcome.text))
             ELSE AttemptGave(NoResult)
    /\ UNCHANGED <<sched_vars, fn_vars, setup_vars, analysis_enabled, current_provider_index,
                   news_item, translated_item, local_runs, calls, first_failed_before>>

\* The for loop is over without a return: the local analysis is returned
\* (lines 183-185).
Exhausted ==
    /\ pc = "loop"
    /\ idx > Len(available_providers)
    /\ result' = fallback_result(news_item)
    /\ local_runs' = local_runs + 1
    /\ pc' = "returned"
    /\ UNCHANGED <<sched_vars, fn_vars, setup_vars, object_vars, idx, news_item, translated_item, raised,
                   last_error, requests, attempts, calls, first_failed_before>>

\* The call that is over made an attempt on the first backend of the list
\* and the attempt gave no result (an exception, or None at line 169).
first_attempt_failed(done) == done # <<>> /\ done[1].outcome # "result"

\* The caller takes the result (main.py, line 52); the analyzer is ready
\* for the next article.
Return ==
    /\ pc = "returned"
    /\ pc' = "idle"
    /\ idx' = 0
    /\ news_item' = NoItem
    /\ translated_item' = NoItem
    /\ result' = NoResult
    /\ last_error' = NoneText
    /\ requests' = <<>>
    /\ attempts' = <<>>
    /\ local_runs' = 0
    /\ calls' = calls + 1
    /\ first_failed_before' = (first_failed_before \/ first_attempt_failed(attempts))
    /\ UNCHANGED <<sched_vars, fn_vars, setup_vars, object_vars, raised>>

Next ==
    \/ CallDisabled
    \/ CallEnabled
    \/ StartAttempt
    \/ TranslationRequest
    \/ AnalysisRequest
    \/ HuggingFaceRequest
    \/ Exhausted
    \/ Return

Spec == Init /\ [][Next]_vars

-----------------------------------------------------------------------------
(* The helper methods called on their own (specification SpecFn): the      *)
(* argument is drawn from a bounded set, one step applies the method.      *)

\* Most lines of a reply put together freely from ReplyLines.
MaxLines == 3
\* Most lines of the body under one heading.
MaxBodyLines == 2

\* The sequences over S of length lo to hi.
SeqsOf(S, lo, hi) == UNION {[1..k -> S] : k \in lo..hi}

\* '## Resumo Executivo'
LineResumoMixed ==
    <<"#","#"," ","R","e","s","u","m","o"," ","E","x","e","c","u","t","i","v","o">>
\* '**PONTOS CHAVE**'
LinePontosBold ==
    <<"*","*","P","O","N","T","O","S"," ","C","H","A","V","E","*","*">>
\* 'Nivel de Relevancia: alto'
LineNivelInline ==
    <<"N","i","v","e","l"," ","d","e"," ","R","e","l","e","v","a","n","c","i","a",":",
      " ","a","l","t","o">>
\* '  Bom texto  '
LinePadded ==
    <<" "," ","B","o","m"," ","t","e","x","t","o"," "," ">>
\* '**IA** cresce'
LineBoldStart ==
    <<"*","*","I","A","*","*"," ","c","r","e","s","c","e">>
\* '## Outro título'
LineOtherHeading ==
    <<"#","#"," ","O","u","t","r","o"," ","t","í","t","u","l","o">>
\* 'Os pontos-chave valem'
LineMentionsPontos ==
    <<"O","s"," ","p","o","n","t","o","s","-","c","h","a","v","e"," ","v","a","l","e",
      "m">>
\* '- dois IA'
LineDash ==
    <<"-"," ","d","o","i","s"," ","I","A">>
\* '## RESUMO EXECUTIVO'
HeadingResumo ==
    <<"#","#"," ","R","E","S","U","M","O"," ","E","X","E","C","U","T","I","V","O">>
\* '**PONTOS-CHAVE**'
HeadingPontos ==
    <<"*","*","P","O","N","T","O","S","-","C","H","A","V","E","*","*">>
\* 'NÍVEL DE RELEVÂNCIA'
HeadingNivel ==
    <<"N","Í","V","E","L"," ","D","E"," ","R","E","L","E","V","Â","N","C","I","A">>

\* The lines a reply is put together from: headings in the three styles,
\* text, an empty line, a line in bold, a heading of no section.
ReplyLines ==
    {LineResumoMixed, LinePontosBold, LineNivelInline, LinePadded, <<>>,
     LineBoldStart, LineOtherHeading}

\* Replies of up to MaxLines lines, with or without headings.
FreeReplies ==
    {[analysis_text |-> Join(lines, <<"\n">>), bodies |-> <<>>] :
        lines \in SeqsOf(ReplyLines, 0, MaxLines)}

\* The lines the body of a section is put together from.
BodyLines == {LinePadded, LineDash, LineBoldStart, LineMentionsPontos}

Bodies == SeqsOf(BodyLines, 1, MaxBodyLines)

\* Replies with the three headings in order, each followed by a body; at
\* most one of the bodies has more than one line.
SectionedReplies ==
    {[analysis_text |->
          Join(<<HeadingResumo>> \o b[1] \o <<HeadingPontos>> \o b[2]
               \o <<HeadingNivel>> \o b[3], <<"\n">>),
      bodies |-> b] :
        b \in {x \in [1..3 -> Bodies] : Cardinality({k \in 1..3 : Len(x[k]) > 1}) <= 1}}

\* The analysis_text values _parse_analysis_response is applied to; bodies
\* records how a sectioned reply was put together.
ParserArguments == FreeReplies \cup SectionedReplies
\* 'Claude news'
TitleClaude ==
    <<"C","l","a","u","d","e"," ","n","e","w","s">>
\* 'Minor patch'
TitleMinor ==
    <<"M","i","n","o","r"," ","p","a","t","c","h">>
\* 'Robot ALGORITHM'
TitleRobot ==
    <<"R","o","b","o","t"," ","A","L","G","O","R","I","T","H","M">>
\* 'Gemini funding'
TitleGemini ==
    <<"G","e","m","i","n","i"," ","f","u","n","d","i","n","g">>
\* 'Small fix'
ContentSmall ==
    <<"S","m","a","l","l"," ","f","i","x">>
\* 'Neural automation'
ContentNeural ==
    <<"N","e","u","r","a","l"," ","a","u","t","o","m","a","t","i","o","n">>
\* 'OpenAI'
ContentOpenAI ==
    <<"O","p","e","n","A","I">>
\* 'Billion deal'
ContentBillion ==
    <<"B","i","l","l","i","o","n"," ","d","e","a","l">>
\* 'Deep Learning'
ContentDeep ==
    <<"D","e","e","p"," ","L","e","a","r","n","i","n","g">>

LocalTitles == {TitleClaude, TitleMinor, TitleRobot, TitleGemini}
\* 'Microsoft API for business'
ContentMicrosoft ==
    <<"M","i","c","r","o","s","o","f","t"," ","A","P","I"," ","f","o","r"," ","b","u",
      "s","i","n","e","s","s">>
LocalContents ==
    {ContentSmall, ContentNeural, ContentOpenAI, ContentBillion, ContentDeep,
     ContentMicrosoft}

\* The articles _local_analysis is applied to: with title and content, with
\* a summary in place of the content, and with no title.
LocalArguments ==
    {[title |-> t, content |-> c] : t \in LocalTitles, c \in LocalContents}
    \cup {[title |-> t, summary |-> c] : t \in LocalTitles, c \in LocalContents}
    \cup {[content |-> c] : c \in LocalContents}
    \cup {[title |-> t] : t \in LocalTitles}
\* 'Minor patch note'
TitleShort ==
    <<"M","i","n","o","r"," ","p","a","t","c","h"," ","n","o","t","e">>
\* 'Novo modelo DE IA para todos'
TitleTwoWords ==
    <<"N","o","v","o"," ","m","o","d","e","l","o"," ","D","E"," ","I","A"," ","p","a",
      "r","a"," ","t","o","d","o","s">>
\* 'OpenAI raises funding for ChatGPT developers'
TitleEnglish ==
    <<"O","p","e","n","A","I"," ","r","a","i","s","e","s"," ","f","u","n","d","i","n",
      "g"," ","f","o","r"," ","C","h","a","t","G","P","T"," ","d","e","v","e","l","o",
      "p","e","r","s">>
\* 'Um robot novo chega hoje aqui'
TitleOneWord ==
    <<"U","m"," ","r","o","b","o","t"," ","n","o","v","o"," ","c","h","e","g","a"," ",
      "h","o","j","e"," ","a","q","u","i">>
\* 'Small update today'
SummaryShort ==
    <<"S","m","a","l","l"," ","u","p","d","a","t","e"," ","t","o","d","a","y">>
\* 'Resumo de IA para todos'
SummaryTwoWords ==
    <<"R","e","s","u","m","o"," ","d","e"," ","I","A"," ","p","a","r","a"," ","t","o",
      "d","o","s">>
\* 'ChatGPT maker OpenAI said it'
SummaryEnglish ==
    <<"C","h","a","t","G","P","T"," ","m","a","k","e","r"," ","O","p","e","n","A","I",
      " ","s","a","i","d"," ","i","t">>
\* 'Estudo sobre robot novo agora'
SummaryOneWord ==
    <<"E","s","t","u","d","o"," ","s","o","b","r","e"," ","r","o","b","o","t"," ","n",
      "o","v","o"," ","a","g","o","r","a">>

TranslationTitles == {TitleShort, TitleTwoWords, TitleEnglish, TitleOneWord}
TranslationSummaries == {SummaryShort, SummaryTwoWords, SummaryEnglish, SummaryOneWord}

\* The articles _translate_news_item_simple is applied to: texts of fewer
\* than five words, with two function words, with one and with none; with a
\* summary, with a content in its place, with a title only.
TranslationArguments ==
    {[title |-> t, summary |-> x] : t \in TranslationTitles, x \in TranslationSummaries}
    \cup {[title |-> t, content |-> x] : t \in TranslationTitles, x \in TranslationSummaries}
    \cup {[title |-> t] : t \in TranslationTitles}

\* The analyzers the method is called on: no backend, or one.
SingleBackendLists == {l \in ConstructedLists : Len(l) <= 1}

\* The keys of an article the prompt reads, each with a text of its own.
PromptKeys == {"title", "content", "summary"}
PromptTexts ==
    [title |-> <<"T","i","t","l","e">>,
     content |-> <<"B","o","d","y"," ","t","e","x","t">>,
     summary |-> <<"S","h","o","r","t">>]

\* The articles _create_analysis_prompt is applied to: each key is absent,
\* present with the empty string, or present with its text.
PromptArguments ==
    {[k \in K |-> IF empty[k] THEN <<>> ELSE PromptTexts[k]] :
        K \in SUBSET PromptKeys, empty \in [PromptKeys -> BOOLEAN]}

Returned(v) == [returned |-> TRUE, value |-> v]

\* No analyzer is under construction and no analyze_news call is running.
FnInit ==
    /\ env = NoEnv
    /\ openai_imported = FALSE
    /\ setup_pc = "ready"
    /\ sorted_providers = <<>>
    /\ setup_idx = 0
    /\ probe_response = NoProbe
    /\ probe_calls = 1
    /\ ctor_failed = {}
    /\ init_raised = FALSE
    /\ analysis_enabled = TRUE
    /\ current_provider_index = 0
    /\ NoCall
    /\ NoSched
    /\ fn_ret = NoReturn
    /\ \/ /\ fn_name = "_parse_analysis_response"
          /\ fn_arg \in ParserArguments
          /\ available_providers = <<>>
       \/ /\ fn_name = "_local_analysis"
          /\ fn_arg \in LocalArguments
          /\ available_providers = <<>>
       \/ /\ fn_name = "_create_analysis_prompt"
          /\ fn_arg \in PromptArguments
          /\ available_providers = <<>>
       \/ /\ fn_name = "_translate_news_item_simple"
          /\ fn_arg \in TranslationArguments
          /\ available_providers \in SingleBackendLists

\* _parse_analysis_response(analysis_text) is called.
ApplyParse ==
    /\ fn_name = "_parse_analysis_response"
    /\ fn_ret = NoReturn
    /\ fn_ret' = Returned(parse_analysis_response(fn_arg.analysis_text))
    /\ UNCHANGED <<sched_vars, setup_vars, object_vars, call_vars, fn_name, fn_arg>>

\* _local_analysis(news_item) is called.
ApplyLocal ==
    /\ fn_name = "_local_analysis"
    /\ fn_ret = NoReturn
    /\ fn_ret' = Returned(local_analysis(fn_arg))
    /\ UNCHANGED <<sched_vars, setup_vars, object_vars, call_vars, fn_name, fn_arg>>

\* _translate_news_item_simple(news_item) is called: it returns news_item
\* (line 273, or line 324 with no OpenAI-compatible first backend), or it
\* sends its request and returns what translation_result gives.
ApplyTranslate ==
    /\ fn_name = "_translate_news_item_simple"
    /\ fn_ret = NoReturn
    /\ IF translation_requested(fn_arg)
       THEN \E outcome \in TranslationOutcomes :
               fn_ret' = Returned([request_sent |-> TRUE,
                                   item |-> translation_result(fn_arg, outcome)])
       ELSE fn_ret' = Returned([request_sent |-> FALSE, item |-> fn_arg])
    /\ UNCHANGED <<sched_vars, setup_vars, object_vars, call_vars, fn_name, fn_arg>>

\* _create_analysis_prompt(news_item) is called.
ApplyPrompt ==
    /\ fn_name = "_create_analysis_prompt"
    /\ fn_ret = NoReturn
    /\ fn_ret' = Returned(create_analysis_prompt(fn_arg))
    /\ UNCHANGED <<sched_vars, setup_vars, object_vars, call_vars, fn_name, fn_arg>>

FnNext ==
    \/ ApplyParse
    \/ ApplyLocal
    \/ ApplyTranslate
    \/ ApplyPrompt

SpecFn == FnInit /\ [][FnNext]_vars

-----------------------------------------------------------------------------
(* Properties of the constructor (checked under SpecSetup).                *)

\* [p['name'] for p in self.available_providers]
names(avail) == [k \in DOMAIN avail |-> avail[k].name]

InList(n) == \E k \in DOMAIN available_providers : available_providers[k].name = n

\* The health probe was answered with HTTP 200 and a non-empty models array.
ProbePositive ==
    /\ probe_response.kind = "response"
    /\ probe_response.status = 200
    /\ probe_response.json_ok
    /\ probe_response.models >= 1

\* C8 - Health-check gating: the local backend is in the usable-provider
\* list only if the probe returned HTTP 200 with a non-empty models array;
\* after any other probe outcome (zero models, non-200, timeout, transport
\* exception, unreadable body) nothing was raised and the local backend is
\* not in the list.
C8_HealthCheckGating ==
    /\ InList("ollama") => ProbePositive
    /\ (probe_calls > 0 /\ ~ProbePositive) => (~InList("ollama") /\ ~init_raised)
    /\ setup_pc # "raised"

\* The constructor finished after a probe that succeeded at transport level
\* and reported zero installed models; hosted backends are in the list.
C8_Witness ==
    /\ setup_pc = "ready"
    /\ probe_response.kind = "response" /\ probe_response.status = 200
    /\ probe_response.json_ok /\ probe_response.models = 0
    /\ ~InList("ollama")
    /\ Len(available_providers) >= 2

HostedNames == {"openrouter", "groq", "together", "huggingface"}

\* The environment variable holding the credential of a hosted backend.
KeyOf(n) ==
    CASE n = "openrouter" -> env.OPENROUTER_API_KEY
      [] n = "groq" -> env.GROQ_API_KEY
      [] n = "together" -> env.TOGETHER_API_KEY
      [] n = "huggingface" -> env.HUGGINGFACE_API_KEY

\* The credential is present, non-empty and not the placeholder sentinel.
CredentialPresent(n) ==
    KeyOf(n) # None /\ KeyOf(n) # "" /\ KeyOf(n) # "your_api_key_here"

\* C9 as stated - Credential gating: once the analyzer is constructed, a
\* hosted backend is in the usable-provider list if and only if its
\* credential is present and is not the placeholder, and nothing was raised.
C9_Original ==
    setup_pc = "ready" =>
        /\ \A n \in HostedNames : InList(n) <=> CredentialPresent(n)
        /\ ~init_raised

\* C9 as amended - a hosted backend is in the list only if its credential is
\* present and is not the placeholder; with such a credential the
\* huggingface backend is in the list, and an OpenAI-compatible hosted
\* backend is in the list exactly when the OpenAI client class was imported
\* and constructing its client raised nothing. The constructor raises
\* nothing, also when the list ends up empty.
C9_CredentialGating ==
    /\ \A n \in HostedNames : InList(n) => CredentialPresent(n)
    /\ setup_pc = "ready" =>
          /\ CredentialPresent("huggingface") => InList("huggingface")
          /\ \A n \in HostedNames \ {"huggingface"} :
                InList(n) <=> /\ CredentialPresent(n)
                              /\ openai_imported
                              /\ n \notin ctor_failed
    /\ ~init_raised /\ setup_pc # "raised"

\* The constructor finished with every hosted credential absent, empty or
\* the placeholder (each kind occurring), and the list is empty.
C9_Witness ==
    /\ setup_pc = "ready"
    /\ available_providers = <<>>
    /\ env.OPENROUTER_API_KEY = "your_api_key_here"
    /\ env.GROQ_API_KEY = None
    /\ env.TOGETHER_API_KEY = ""
    /\ ~init_raised

\* s is a subsequence of t (the elements of s occur in t in the same order).
RECURSIVE IsSubsequence(_, _)
IsSubsequence(s, t) ==
    IF s = <<>> THEN TRUE
    ELSE IF t = <<>> THEN FALSE
    ELSE IF s[1] = t[1] THEN IsSubsequence(Tail(s), Tail(t))
    ELSE IsSubsequence(s, Tail(t))

\* The registry in ascending priority, as the claim lists it.
PriorityOrder == <<"ollama", "openrouter", "groq", "together", "huggingface">>

\* C10 - Chain order: at every point of the construction and after it, the
\* usable-provider list is a subsequence of the registry in ascending
\* priority (ollama, openrouter, groq, together, huggingface) and holds no
\* backend twice.
C10_ChainOrder ==
    /\ IsSubsequence(names(available_providers), PriorityOrder)
    /\ \A j, k \in DOMAIN available_providers :
          available_providers[j].name = available_providers[k].name => j = k

\* The constructor finished with all five backends usable.
C10_Witness ==
    /\ setup_pc = "ready"
    /\ Len(available_providers) = 5

-----------------------------------------------------------------------------
(* Properties of analyze_news (checked under Spec).                        *)

\* The five fields every result record carries.
RequiredFields ==
    {"resumo_executivo", "pontos_chave", "nivel_relevancia",
     "titulo_traduzido", "resumo_traduzido"}

\* Attempt k of the running call ended without a result: it raised, or it
\* returned nothing.
Failed(k) == attempts[k].outcome \in {"raised", "none"}

IsAnalysisRequest(r) == r.kind = "analysis"
IsTranslationRequest(r) == r.kind = "translation"

\* The analysis requests of the running call, in the order they were sent.
AnalysisRequests == SelectSeq(requests, IsAnalysisRequest)

\* The number of requests of the log s sent to backend n.
RECURSIVE RequestsTo(_, _)
RequestsTo(s, n) ==
    IF s = <<>> THEN 0
    ELSE (IF s[1].to = n THEN 1 ELSE 0) + RequestsTo(Tail(s), n)

\* C1 - Totality: no exception leaves analyze_news, and what it returns is
\* a record (never None) that carries the five fields resumo_executivo,
\* pontos_chave, nivel_relevancia, titulo_traduzido and resumo_traduzido,
\* each a string, whatever the backends and the translation did.
C1_Totality ==
    /\ ~raised
    /\ pc # "raised"
    /\ pc = "returned" =>
          /\ result # NoResult
          /\ RequiredFields \subseteq DOMAIN result
          /\ \A f \in RequiredFields : result[f] # NoneText

\* A call returned after one backend raised and another returned nothing.
C1_Witness ==
    /\ pc = "returned"
    /\ \E j, k \in DOMAIN attempts :
          attempts[j].outcome = "raised" /\ attempts[k].outcome = "none"
    /\ Len(requests) > Len(attempts)

\* The relevance level the keyword rule gives each article of the model:
\* ArticleEN holds three high-tier keywords, ArticlePT one, ArticleLow no
\* high-tier and no medium-tier keyword.
ExpectedRelevance(item, nivel) ==
    /\ item = ArticleEN => StartsWith(nivel, <<"A","l","t","o">>)
    /\ item = ArticlePT => StartsWith(nivel, <<"M","é","d","i","o">>)
    /\ item = ArticleLow => StartsWith(nivel, <<"B","a","i","x","o">>)

\* Every backend of the list was attempted and none gave a result.
AllFailed ==
    /\ Len(attempts) = Len(available_providers)
    /\ \A k \in DOMAIN attempts : Failed(k)

\* C2 - Exhaustion fallback: when analysis is enabled and the list is empty
\* or every backend failed, the call returns exactly the local analyzer's
\* output for the article, with metodo_analise = 'local' and the relevance
\* level of the keyword rule.
C2_ExhaustionFallback ==
    (pc = "returned" /\ analysis_enabled /\ AllFailed) =>
        /\ result = local_analysis(news_item)
        /\ "metodo_analise" \in DOMAIN result
        /\ result.metodo_analise = <<"l","o","c","a","l">>
        /\ ExpectedRelevance(news_item, result.nivel_relevancia)

\* A call on the article with one high-tier keyword returned after all of
\* two or more backends failed.
C2_Witness ==
    /\ pc = "returned"
    /\ analysis_enabled
    /\ Len(available_providers) >= 2
    /\ AllFailed
    /\ news_item = ArticlePT

\* The call returned the result of the third backend after the first two failed.
ThirdSucceeded ==
    /\ pc = "returned"
    /\ Len(attempts) = 3
    /\ Failed(1) /\ Failed(2)
    /\ attempts[3].outcome = "result"

\* C3 - Fallback ordering, provider marker: when the attempts on A and B
\* fail and the attempt on C succeeds, the result carries provedor_usado
\* equal to the name of C, whichever backend type C is.
C3_ProviderMarker ==
    ThirdSucceeded =>
        /\ "provedor_usado" \in DOMAIN result
        /\ result.provedor_usado = available_providers[3].name

\* C4 as stated - Fallback ordering, invocation count: when A and B fail
\* and C succeeds, each of A and B received at most one generation request
\* during the call, analysis and translation requests counted alike.
C4_Original ==
    ThirdSucceeded =>
        \A k \in {1, 2} : RequestsTo(requests, available_providers[k].name) <= 1

\* The attempts started so far on hosted OpenAI-compatible backends.
HostedAttempts ==
    {k \in DOMAIN available_providers :
        /\ k <= idx
        /\ available_providers[k].type = "openai_compatible"
        /\ available_providers[k].name # "ollama"}

\* C4 as amended - during one call every backend receives at most one
\* analysis request; translation requests come on top: each attempt on a
\* hosted OpenAI-compatible backend sends at most one, always to the first
\* backend of the list, so only the first backend can receive more than one
\* request (its analysis request and one translation request per such
\* attempt) and every other backend receives at most one request.
C4_InvocationCount ==
    /\ \A n \in ProviderNames : RequestsTo(AnalysisRequests, n) <= 1
    /\ \A k \in DOMAIN requests :
          requests[k].kind = "translation" => requests[k].to = available_providers[1].name
    /\ Len(SelectSeq(requests, IsTranslationRequest)) <= Cardinality(HostedAttempts)
    /\ \A k \in DOMAIN available_providers :
          k > 1 => RequestsTo(requests, available_providers[k].name) <= 1

\* A and B failed, C succeeded, and A received its analysis request and the
\* translation request of each of the three attempts.
C4_Witness ==
    /\ ThirdSucceeded
    /\ RequestsTo(requests, available_providers[1].name) = 4
    /\ RequestsTo(requests, available_providers[2].name) = 1

\* C5 - Strict sequential order with short-circuit: the analysis attempts
\* follow the order of the list; the attempt on position k starts only
\* after the attempts on all earlier positions have failed; once an attempt
\* succeeds the call returns its result, no later backend is attempted and
\* the local analyzer is not invoked.
C5_SequentialShortCircuit ==
    /\ Len(AnalysisRequests) <= Len(available_providers)
    /\ \A k \in DOMAIN AnalysisRequests :
          /\ AnalysisRequests[k].to = available_providers[k].name
          /\ \A j \in 1..(k - 1) : j \in DOMAIN attempts /\ Failed(j)
    /\ \A k \in DOMAIN attempts :
          /\ k \in DOMAIN AnalysisRequests
          /\ attempts[k].provider = available_providers[k].name
          /\ attempts[k].outcome = "result" =>
                /\ k = Len(attempts)
                /\ Len(AnalysisRequests) = k
                /\ pc = "returned"
                /\ local_runs = 0
                /\ "metodo_analise" \notin DOMAIN result

\* The third of five backends succeeded: two later backends stay untried.
C5_Witness ==
    /\ ThirdSucceeded
    /\ Len(available_providers) = 5
    /\ Len(AnalysisRequests) = 3

\* C6 - Every backend failure is non-fatal: a step in which an attempt
\* ends with an exception, with a rate-limit signal or without, leaves the
\* call at the head of the loop on the next position, with nothing raised
\* and nothing returned; and at the head of the loop with no backend left
\* the only step is the return of the local analysis.
C6_FailureAdvances ==
    [][ /\ (/\ Len(attempts') = Len(attempts) + 1
            /\ attempts'[Len(attempts')].outcome = "raised")
           => /\ pc' = "loop"
              /\ idx' = idx + 1
              /\ raised' = FALSE
              /\ result' = result
        /\ (pc = "loop" /\ idx > Len(available_providers))
           => /\ pc' = "returned"
              /\ raised' = FALSE
              /\ result' = local_analysis(news_item) ]_vars

\* The loop goes on after a failure without a rate-limit signal that
\* followed a failure with one.
C6_Witness ==
    /\ pc = "loop"
    /\ Len(attempts) >= 2
    /\ idx = Len(attempts) + 1
    /\ attempts[Len(attempts)].outcome = "raised"
    /\ last_error = ErrConnection

\* C7 - Disabled analysis: while the analysis-enabled flag is false no
\* request is sent to any backend and no attempt is made, whatever the
\* list holds, and the call returns the local analyzer's output.
C7_DisabledAnalysis ==
    ~analysis_enabled =>
        /\ requests = <<>>
        /\ attempts = <<>>
        /\ pc \in {"idle", "returned"}
        /\ pc = "returned" => (result = local_analysis(news_item) /\ local_runs = 1)

\* A call returned with analysis disabled and all five backends usable.
C7_Witness ==
    /\ pc = "returned"
    /\ ~analysis_enabled
    /\ Len(available_providers) = 5

-----------------------------------------------------------------------------
(* Properties of the translation step (checked under Spec).                *)

\* 'Relatório de IA no mercado brasileiro'
TitleBR ==
    <<"R","e","l","a","t","ó","r","i","o"," ","d","e"," ","I","A"," ","n","o"," ","m",
      "e","r","c","a","d","o"," ","b","r","a","s","i","l","e","i","r","o">>

\* The first backend of the chain is a hosted OpenAI-compatible one.
HostedFirst ==
    /\ available_providers # <<>>
    /\ available_providers[1].type = "openai_compatible"
    /\ available_providers[1].name # "ollama"

TranslationRequests == SelectSeq(requests, IsTranslationRequest)

\* C11 (translation skip): for the article titled 'Relatório de IA no
\* mercado brasileiro', with a hosted backend configured, the translation
\* step sends no generation request and hands the article on unchanged.
C11_TranslationSkip ==
    (HostedFirst /\ get(news_item, "title", <<>>) = TitleBR)
        => /\ pc # "translation_request"
           /\ TranslationRequests = <<>>
           /\ pc = "analysis_request" => translated_item = news_item

-----------------------------------------------------------------------------
(* Properties of the response parser (checked under SpecFn).               *)

SectionKeys == {"resumo_executivo", "pontos_chave", "nivel_relevancia"}

ParserReturned == fn_name = "_parse_analysis_response" /\ fn_ret # NoReturn

\* The heading of a section occurs in the text, in whatever case and style.
HeadingOccurs(key, text) ==
    LET u == Upper(text)
    IN CASE key = "resumo_executivo" -> Contains(ResumoMarkers[3], u)
         [] key = "pontos_chave" ->
                Contains(PontosMarkers[5], u) \/ Contains(PontosMarkers[6], u)
         [] key = "nivel_relevancia" ->
                Contains(NivelMarkers[5], u) \/ Contains(NivelMarkers[6], u)

\* C12 (parser total default): for every text the parser returns, without
\* raising, a record with exactly the keys resumo_executivo, pontos_chave
\* and nivel_relevancia, and a key whose heading never occurs in the text
\* maps to the empty string.
C12_ParserTotalDefault ==
    ParserReturned
        => /\ fn_ret.returned
           /\ DOMAIN fn_ret.value = SectionKeys
           /\ \A key \in SectionKeys :
                 ~HeadingOccurs(key, fn_arg.analysis_text) => fn_ret.value[key] = <<>>

\* A text of two lines with no heading was parsed into three empty sections.
C12_Witness ==
    /\ ParserReturned
    /\ fn_arg.analysis_text = Join(<<LinePadded, LineBoldStart>>, <<"\n">>)
    /\ \A key \in SectionKeys : fn_ret.value[key] = <<>>

SectionOrder == <<"resumo_executivo", "pontos_chave", "nivel_relevancia">>

\* The reply was put together from the three headings and a body for each.
SectionedReturned == ParserReturned /\ fn_arg.bodies # <<>>

\* A body with its lines trimmed and joined by newlines.
TrimmedBody(body) == Join([i \in DOMAIN body |-> Strip(body[i])], <<"\n">>)

\* Every section equals its body, trimmed, and is not empty.
SectionsEqualBodies ==
    \A k \in 1..3 :
        /\ fn_ret.value[SectionOrder[k]] = TrimmedBody(fn_arg.bodies[k])
        /\ fn_ret.value[SectionOrder[k]] # <<>>

PlainLine(line) ==
    LET t == Strip(line)
    IN /\ t # <<>>
       /\ SubSeq(t, 1, 2) \notin {<<"#","#">>, <<"*","*">>}
       /\ \A key \in SectionKeys : ~HeadingOccurs(key, t)

PlainBodies ==
    \A k \in 1..3 : \A i \in DOMAIN fn_arg.bodies[k] : PlainLine(fn_arg.bodies[k][i])

-----------------------------------------------------------------------------
(* Properties of the local analyzer (checked under SpecFn).                *)

LocalReturned == fn_name = "_local_analysis" /\ fn_ret # NoReturn

\* The lowercased title+content of the article the local analyzer was given.
LocalText ==
    Lower(get(fn_arg, "title", NA) \o <<" ">>
          \o get(fn_arg, "content", get(fn_arg, "summary", <<>>)))

\* The number of the keywords found in the text.
Found(keywords) == Cardinality({k \in DOMAIN keywords : Contains(keywords[k], LocalText)})

LevelIs(word) == StartsWith(fn_ret.value.nivel_relevancia, word)

\* C14 (local relevance classification): the level begins with 'Alto' iff
\* high_count >= 2, with 'Médio' iff high_count < 2 and (high_count >= 1 or
\* medium_count >= 1), with 'Baixo' iff both counts are 0; exactly two
\* high-tier keywords give Alto, exactly one gives Médio, none of either
\* tier gives Baixo.
C14_LocalRelevance ==
    LocalReturned
        => LET high_count == Found(high_relevance_keywords)
               medium_count == Found(medium_relevance_keywords)
           IN /\ LevelIs(<<"A","l","t","o">>) <=> high_count >= 2
              /\ LevelIs(<<"M","é","d","i","o">>)
                    <=> (high_count < 2 /\ (high_count >= 1 \/ medium_count >= 1))
              /\ LevelIs(<<"B","a","i","x","o">>) <=> (high_count = 0 /\ medium_count = 0)
              /\ fn_arg = [title |-> TitleClaude, content |-> ContentBillion]
                    => LevelIs(<<"A","l","t","o">>)
              /\ fn_arg = [title |-> TitleClaude, content |-> ContentSmall]
                    => LevelIs(<<"M","é","d","i","o">>)
              /\ fn_arg = [title |-> TitleMinor, content |-> ContentSmall]
                    => LevelIs(<<"B","a","i","x","o">>)

\* An article with no high-tier and one medium-tier keyword was rated Médio.
C14_Witness ==
    /\ LocalReturned
    /\ fn_arg = [title |-> TitleMinor, content |-> ContentDeep]
    /\ fn_ret.value.nivel_relevancia = RelevanciaRelacionada

-----------------------------------------------------------------------------
(* Frame of analyze_news (checked under Spec).                             *)

\* C15 (the usable-provider list is read-only after construction): no step
\* of any analyze_news call, whatever its outcome, changes the members or
\* the order of available_providers, and none sends the health probe again.
C15_ProvidersReadOnly ==
    [][/\ available_providers' = available_providers
       /\ probe_calls' = probe_calls]_vars

\* The second call on an analyzer with two backends or more ended after a
\* failed attempt; one probe was sent, by the constructor.
C15_Witness ==
    /\ calls = 1
    /\ pc = "returned"
    /\ Len(available_providers) >= 2
    /\ \E k \in DOMAIN attempts : attempts[k].outcome = "raised"
    /\ probe_calls = 1

-----------------------------------------------------------------------------
(* The success criterion of analyze_news (checked under Spec).             *)

\* The result came from a backend, not from the local analyzer.
FromBackend == pc = "returned" /\ local_runs = 0

\* C16 (success criterion): a backend's result is returned only when it is
\* not empty; a reply from which the parser extracts no section content is
\* not returned as the analysis.
C16_SuccessCriterion ==
    FromBackend
        => ~(/\ result.resumo_executivo = <<>>
             /\ result.pontos_chave = <<>>
             /\ result.nivel_relevancia = <<>>)

-----------------------------------------------------------------------------
(* Best-effort translation (checked under Spec).                           *)

LastRequest == requests[Len(requests)]

\* The translation step of the attempt in progress has just sent its request.
TranslationJustSent == requests # <<>> /\ IsTranslationRequest(LastRequest)

\* C17 (translation is best-effort on the first backend only): every
\* translation request goes to the first entry of available_providers; a
\* run of the step sends one request at most, the next request is the
\* analysis request of the attempt in progress; when the translation
\* request failed the step hands on the original article, no exception
\* leaves it and the attempt goes on to its analysis request.
C17_BestEffortTranslation ==
    /\ \A k \in DOMAIN requests :
          IsTranslationRequest(requests[k])
              => /\ requests[k].to = available_providers[1].name
                 /\ k < Len(requests) => IsAnalysisRequest(requests[k + 1])
    /\ TranslationJustSent
          => /\ pc = "analysis_request"
             /\ ~raised
             /\ Len(attempts) = idx - 1
             /\ LastRequest.answer = "raise" => translated_item = news_item

\* During the attempt on the second backend the translation request, sent
\* to the first one, failed; the attempt is at its analysis request with
\* the original article.
C17_Witness ==
    /\ TranslationJustSent
    /\ LastRequest.answer = "raise"
    /\ idx = 2
    /\ LastRequest.to = available_providers[1].name
    /\ news_item = ArticleEN
    /\ translated_item = ArticleEN
    /\ pc = "analysis_request"

-----------------------------------------------------------------------------
(* No translation for the local backend (checked under Spec).              *)

\* The attempt in progress, or the one that gave the result, is on ollama.
OnOllama ==
    /\ pc \in {"translation_request", "analysis_request", "returned"}
    /\ idx \in DOMAIN available_providers
    /\ provider_at(idx).name = "ollama"

\* The body the analysis prompt embeds for an article taken as it is.
OriginalBody(item) == get(item, "content", get(item, "summary", NA))

\* C18 (translation skipped for the local backend): during the attempt on
\* ollama no translation request is sent, the analysis prompt is built from
\* the original article, and on success titulo_traduzido and
\* resumo_traduzido are the original title and summary.
C18_NoTranslationForLocal ==
    OnOllama
        => /\ pc # "translation_request"
           /\ TranslationRequests = <<>>
           /\ \A k \in DOMAIN requests :
                 requests[k].to = "ollama"
                     => /\ IsAnalysisRequest(requests[k])
                        /\ requests[k].prompt.title = get(news_item, "title", NA)
                        /\ requests[k].prompt.content = OriginalBody(news_item)
           /\ (pc = "returned" /\ local_runs = 0)
                 => /\ result.provedor_usado = "ollama"
                    /\ result.titulo_traduzido = get(news_item, "title", <<>>)
                    /\ result.resumo_traduzido = get(news_item, "summary", <<>>)

\* ollama analysed the article in English, which a hosted backend would
\* have had translated first.
C18_Witness ==
    /\ OnOllama
    /\ pc = "returned"
    /\ local_runs = 0
    /\ news_item = ArticleEN
    /\ ~already_portuguese(news_item)
    /\ result.titulo_traduzido = ArticleEN.title
    /\ Len(requests) = 1

-----------------------------------------------------------------------------
(* The already-translated heuristic (checked under SpecFn).                *)

\* _translate_news_item_simple returned, on an analyzer whose first backend
\* is OpenAI-compatible: a request is sent unless the article is taken to
\* be in Portuguese already.
TranslateReturned ==
    /\ fn_name = "_translate_news_item_simple"
    /\ fn_ret # NoReturn
    /\ available_providers # <<>>
    /\ available_providers[1].type = "openai_compatible"

\* The lowercase whitespace-split tokens of a text.
Tokens(text) == SplitWords(Lower(text))

\* At least two tokens are function words of the list, or there are fewer
\* than five tokens.
LooksTranslated(text) ==
    LET tokens == Tokens(text)
    IN \/ Cardinality({i \in DOMAIN tokens :
                          \E k \in DOMAIN portuguese_words : tokens[i] = portuguese_words[k]}) >= 2
       \/ Len(tokens) < 5

ItemTitle == get(fn_arg, "title", <<>>)
ItemSummary == get(fn_arg, "summary", get(fn_arg, "content", <<>>))

\* C19 as stated: translation is skipped exactly when the tokens of the
\* combined title+summary hold two function words or are fewer than five.
C19_Original ==
    TranslateReturned
        => (~fn_ret.value.request_sent <=> LooksTranslated(ItemTitle \o <<" ">> \o ItemSummary))

\* C19 (already-translated heuristic), amended: translation is skipped
\* exactly when the title on its own and the summary on its own each hold
\* two function words of the list or have fewer than five tokens.
C19_TranslatedHeuristic ==
    TranslateReturned
        => (~fn_ret.value.request_sent
              <=> (LooksTranslated(ItemTitle) /\ LooksTranslated(ItemSummary)))

\* A title of six words with two function words and a summary of three
\* words: no request was sent, the article came back as it was.
C19_Witness ==
    /\ TranslateReturned
    /\ fn_arg = [title |-> TitleTwoWords, summary |-> SummaryShort]
    /\ ~fn_ret.value.request_sent
    /\ fn_ret.value.item = fn_arg

-----------------------------------------------------------------------------
(* The body of the analysis prompt (checked under SpecFn).                 *)

PromptReturned == fn_name = "_create_analysis_prompt" /\ fn_ret # NoReturn

Has(key) == key \in DOMAIN fn_arg
Empty(key) == Has(key) /\ fn_arg[key] = <<>>

\* The prompt was built, and a missing title or a missing content and
\* summary is replaced by 'N/A'.
PromptPlaceholders ==
    /\ fn_ret.returned
    /\ fn_ret.value.title = (IF Has("title") THEN fn_arg.title ELSE NA)
    /\ (~Has("content") /\ ~Has("summary")) => fn_ret.value.content = NA

\* C20 as stated: the prompt embeds the content, or the summary when the
\* content is the empty string or absent.
C20_Original ==
    PromptReturned
        => /\ PromptPlaceholders
           /\ (Has("content") /\ ~Empty("content"))
                 => fn_ret.value.content = fn_arg.content
           /\ ((Empty("content") \/ ~Has("content")) /\ Has("summary"))
                 => fn_ret.value.content = fn_arg.summary

\* C20 (prompt body selection), amended: the prompt embeds the content
\* whenever the article has the key, the empty string included, and the
\* summary only when the content is absent; a missing title or a missing
\* content and summary is replaced by 'N/A'; building it never raises.
C20_PromptBody ==
    PromptReturned
        => /\ PromptPlaceholders
           /\ Has("content") => fn_ret.value.content = fn_arg.content
           /\ (~Has("content") /\ Has("summary"))
                 => fn_ret.value.content = fn_arg.summary

\* An article with a title and a summary and no content: the summary is
\* embedded.
C20_Witness ==
    /\ PromptReturned
    /\ DOMAIN fn_arg = {"title", "summary"}
    /\ fn_arg.summary = PromptTexts.summary
    /\ fn_ret.value.content = PromptTexts.summary
    /\ fn_ret.value.title = fn_arg.title

-----------------------------------------------------------------------------
(* The line rule of the response parser (checked under SpecFn).            *)

\* The section whose marker a line contains, NoSection when it holds none.
MarkedSection(line) ==
    IF HeadingOccurs("resumo_executivo", line) THEN "resumo_executivo"
    ELSE IF HeadingOccurs("pontos_chave", line) THEN "pontos_chave"
    ELSE IF HeadingOccurs("nivel_relevancia", line) THEN "nivel_relevancia"
    ELSE NoSection

\* The forward scan as the rule states it: a line with a marker moves the
\* cursor and is dropped, every other non-empty line is appended to the
\* section under the cursor, unless it is one of the dropped lines; before
\* the first heading nothing is kept.
NothingDropped == "nothing"
MarkupDropped == "markup"
Dropped(line, dropped) ==
    dropped = MarkupDropped /\ SubSeq(line, 1, 2) \in {<<"#","#">>, <<"*","*">>}

RECURSIVE RuleScan(_, _, _, _)
RuleScan(lines, cursor, acc, dropped) ==
    IF lines = <<>> THEN [k \in DOMAIN acc |-> Strip(acc[k])]
    ELSE LET line == Strip(lines[1])
         IN IF MarkedSection(line) # NoSection
            THEN RuleScan(Tail(lines), MarkedSection(line), acc, dropped)
            ELSE IF cursor # NoSection /\ line # <<>> /\ ~Dropped(line, dropped)
            THEN RuleScan(Tail(lines), cursor,
                          [acc EXCEPT ![cursor] = @ \o line \o <<"\n">>], dropped)
            ELSE RuleScan(Tail(lines), cursor, acc, dropped)

EmptySections == [k \in SectionKeys |-> <<>>]

-----------------------------------------------------------------------------
(* The key points of the local analyzer (checked under SpecFn).            *)

\* The six topical triggers in their check order: keywords and bullet.
TriggerWords ==
    <<{<<"o","p","e","n","a","i">>, <<"c","h","a","t","g","p","t">>},
      {<<"g","o","o","g","l","e">>, <<"g","e","m","i","n","i">>},
      {<<"m","i","c","r","o","s","o","f","t">>},
      {<<"f","u","n","d","i","n","g">>, <<"i","n","v","e","s","t","m","e","n","t">>},
      {<<"e","n","t","e","r","p","r","i","s","e">>, <<"b","u","s","i","n","e","s","s">>},
      {<<"d","e","v","e","l","o","p","e","r">>, <<"a","p","i">>}>>
TriggerBullets ==
    <<PontoOpenAI, PontoGoogle, PontoMicrosoft, PontoInvestimentos, PontoEmpresarial,
      PontoDesenvolvedores>>

\* The triggers with a keyword in the lowercased title+content.
Fired == {k \in 1..6 : \E w \in TriggerWords[k] : Contains(w, LocalText)}

\* The j-th trigger that fired, in check order.
NthFired(j) == CHOOSE k \in Fired : Cardinality({m \in Fired : m < k}) = j - 1

KeyPoints == SplitOn(fn_ret.value.pontos_chave, "\n")

\* C22 (local key points): one bullet for every trigger whose keyword
\* occurs, all of them and in the fixed check order; the three generic
\* bullets exactly when no trigger fires; the key points are never empty.
C22_LocalKeyPoints ==
    LocalReturned
        => /\ fn_ret.value.pontos_chave # <<>>
           /\ Fired # {}
                 => /\ Len(KeyPoints) = Cardinality(Fired)
                    /\ \A j \in DOMAIN KeyPoints : KeyPoints[j] = TriggerBullets[NthFired(j)]
           /\ (KeyPoints = generic_pontos) <=> (Fired = {})

\* Three triggers fired for one article: Microsoft, business, API.
C22_Witness ==
    /\ LocalReturned
    /\ fn_arg = [title |-> TitleMinor, content |-> ContentMicrosoft]
    /\ KeyPoints = <<PontoMicrosoft, PontoEmpresarial, PontoDesenvolvedores>>

-----------------------------------------------------------------------------
(* The clause of the local executive summary (checked under SpecFn).       *)

SummaryHas(clause) == Contains(clause, fn_ret.value.resumo_executivo)

\* C23 (the summary clause follows the relevance tier): the summary has the
\* high-impact clause exactly when the level is Alto, the medium clause
\* exactly when it is Médio, the neutral clause exactly when it is Baixo.
C23_ClauseFollowsTier ==
    LocalReturned
        => /\ SummaryHas(ResumoHigh) <=> LevelIs(<<"A","l","t","o">>)
           /\ SummaryHas(ResumoMedium) <=> LevelIs(<<"M","é","d","i","o">>)
           /\ SummaryHas(ResumoNone) <=> LevelIs(<<"B","a","i","x","o">>)

-----------------------------------------------------------------------------
(* The fields of a local result (checked under Spec).                      *)

\* C24 (local output fields): the step that runs the local analyzer sends
\* no request, and its result has titulo_traduzido equal to the article's
\* original title and resumo_traduzido equal to its original summary (for
\* the keys the article has), whatever was translated before.
C24_LocalOutputFields ==
    [][local_runs' = local_runs + 1
         => /\ requests' = requests
            /\ result'.metodo_analise = MetodoLocal
            /\ "title" \in DOMAIN news_item'
                  => result'.titulo_traduzido = news_item'.title
            /\ "summary" \in DOMAIN news_item'
                  => result'.resumo_traduzido = news_item'.summary]_vars

\* The local analyzer ran after the last backend failed on a translated
\* copy: its result has the original title, not the translated one.
C24_Witness ==
    /\ pc = "returned"
    /\ local_runs = 1
    /\ requests # <<>>
    /\ news_item = ArticleEN
    /\ translated_item.title # ArticleEN.title
    /\ result.titulo_traduzido = ArticleEN.title
    /\ result.resumo_traduzido = ArticleEN.summary


\* ---------------------------------------------------------------------------
\* C25  The article record is read-only: while a call of analyze_news runs,
\* whichever path it takes (translation sent or skipped, a backend answering,
\* the local analysis), no step changes the caller's record; the translated
\* title and summary live in translated_item only.
C25_ArticleReadOnly ==
    [][pc \notin {"idle", "returned"} => news_item' = news_item]_vars

C25_Witness ==
    /\ pc = "returned"
    /\ news_item = ArticleEN
    /\ translated_item # news_item
    /\ translated_item.title # ArticleEN.title
    /\ DOMAIN translated_item = DOMAIN news_item


\* ---------------------------------------------------------------------------
InCall == pc \in {"loop", "translation_request", "analysis_request", "huggingface_request"}

\* What is left of the walk: the backends from the position of the walk on,
\* three steps for each (the head of the loop, the translation request, the
\* analysis request), and nothing once the call has returned.
StepsLeft ==
    IF pc = "returned" THEN 0
    ELSE 3 * (Len(available_providers) + 1 - idx)
         + (IF pc = "loop" THEN 3 ELSE IF pc = "translation_request" THEN 2 ELSE 1)

\* The code of the call in progress has a statement to run: the head of the
\* loop starts an iteration or falls through to line 185, and a request is
\* answered or fails.
CanStep ==
    \/ pc = "loop" /\ idx \in 1..(Len(available_providers) + 1)
    \/ pc = "translation_request" /\ TranslationOutcomes # {} /\ idx \in 1..Len(available_providers)
    \/ pc = "analysis_request" /\ AnalysisOutcomes # {} /\ idx \in 1..Len(available_providers)
    \/ pc = "huggingface_request" /\ HuggingFaceOutcomes # {} /\ idx \in 1..Len(available_providers)

\* The k-th analysis attempt of the call was made on the k-th backend of the
\* usable-provider list.
AttemptIsAt(k) == attempts[k].provider = available_providers[k].name

\* C26  The fallback walk terminates: every step of a call in progress
\* brings it nearer to its return (what is left of the walk strictly
\* decreases and is never negative, and a call that has not returned has a
\* step to take); the call makes at most as many analysis attempts as the
\* usable-provider list is long, the k-th attempt is on the k-th backend of
\* the list, so no backend is attempted twice, and the position of the walk
\* never decreases.
C26_WalkTerminates ==
    [][InCall => /\ StepsLeft' < StepsLeft
                 /\ StepsLeft' >= 0
                 /\ InCall' \/ pc' = "returned"
                 /\ InCall' => CanStep'
                 /\ idx' >= idx
                 /\ Len(attempts') <= Len(available_providers')
                 /\ Len(attempts') \in {Len(attempts), Len(attempts) + 1}
                 /\ \A k \in 1..Len(attempts') : AttemptIsAt(k)'
                 /\ Len(attempts') = Len(attempts) + 1 => Len(attempts') = idx]_vars

C26_Witness ==
    /\ pc = "returned"
    /\ Len(available_providers) = 3
    /\ Len(attempts) = 3
    /\ \A k \in 1..3 : AttemptIsAt(k)
    /\ local_runs = 1

\* ---------------------------------------------------------------------------
\* The returned dictionary carries the marker of the local analysis.
MarkedLocal ==
    /\ "metodo_analise" \in DOMAIN result
    /\ result.metodo_analise = MetodoLocal

\* The result was built by _local_analysis.
ByLocalAnalyzer == local_runs = 1 /\ result = local_analysis(news_item)

\* C27  The local marker is exact: a returned result has metodo_analise =
\* 'local' exactly when _local_analysis built it, which is exactly when
\* analysis was disabled, the usable-provider list was empty or every backend
\* attempt failed; a result built from a backend's reply never has the key.
C27_LocalMarkerExact ==
    pc = "returned" =>
        /\ MarkedLocal <=> ByLocalAnalyzer
        /\ ByLocalAnalyzer <=> (~analysis_enabled \/ available_providers = <<>> \/ AllFailed)
        /\ local_runs = 0 => /\ "metodo_analise" \notin DOMAIN result
                             /\ attempts # <<>>
                             /\ attempts[Len(attempts)].outcome = "result"

C27_Witness ==
    /\ pc = "returned"
    /\ local_runs = 0
    /\ attempts[Len(attempts)].provider = "huggingface"
    /\ Len(attempts) = 2
    /\ ~MarkedLocal

\* ---------------------------------------------------------------------------
\* DemoteFailedProvider is what a walk with memory would do: the backend that
\* failed goes to the end of the list.
\* C28  No memory of failures between calls: no step changes
\* self.available_providers or current_provider_index (which stays 0), every
\* enabled call starts its walk at the first position, and the first attempt
\* of every call is on the first backend of the list, also when that backend
\* failed on an earlier article.
C28_NoMemoryBetweenCalls ==
    [][/\ available_providers' = available_providers
       /\ current_provider_index' = 0
       /\ (pc = "idle" /\ pc' = "loop") => idx' = 1
       /\ pc' \in {"translation_request", "analysis_request", "huggingface_request"}
             => idx' \in 1..Len(available_providers)
       /\ (attempts = <<>> /\ attempts' # <<>>)
             => /\ Len(attempts') = 1
                /\ attempts'[1].provider = available_providers[1].name]_vars

C28_Witness ==
    /\ first_failed_before
    /\ calls = 1
    /\ Len(available_providers) >= 2
    /\ Len(attempts) = 1
    /\ attempts[1].provider = available_providers[1].name
    /\ attempts[1].outcome = "raised"
    /\ Contains(<<"4","2","9">>, last_error)

\* ---------------------------------------------------------------------------
\* The local backend is first in the list, its analysis attempt is over and
\* the walk is on a hosted OpenAI-compatible backend at the second position,
\* past the head of the loop, for an article not detected as translated.
HostedAfterLocal ==
    /\ Len(available_providers) >= 2
    /\ available_providers[1].name = "ollama"
    /\ idx = 2
    /\ provider_at(2).type = "openai_compatible"
    /\ provider_at(2).name # "ollama"
    /\ pc \in {"translation_request", "analysis_request", "huggingface_request", "returned"}
    /\ ~already_portuguese(news_item)

\* C29  The translation target is independent of the backend under attempt:
\* when the local backend is first, its attempt failed and a hosted
\* OpenAI-compatible backend is attempted next for an article not detected
\* as translated, the hosted attempt runs the translation step, and the
\* request of that step, the one sent right after the local backend's failed
\* analysis request, goes to the local backend.
C29_TranslationTargetsFirst ==
    HostedAfterLocal =>
        /\ pc # "huggingface_request"
        /\ requests[1] = [requests[1] EXCEPT !.to = "ollama", !.kind = "analysis",
                                              !.answer = "raise"]
        /\ pc \in {"analysis_request", "returned"}
             => /\ Len(requests) >= 2
                /\ requests[2].kind = "translation"
                /\ requests[2].to = "ollama"

C29_Witness ==
    /\ HostedAfterLocal
    /\ pc = "returned"
    /\ Len(requests) = 3
    /\ requests[2].to = "ollama" /\ requests[2].kind = "translation"
    /\ requests[3].to = provider_at(2).name /\ requests[3].kind = "analysis"
    /\ result.provedor_usado = provider_at(2).name

-----------------------------------------------------------------------------
(* The scheduler process: scheduler.py around main.main.                   *)

\* The scheduler is followed for this many days.
MaxDays == 2

\* time.sleep(60) of the loop (line 53).
SleepSeconds == 60

MinutesPerDay == 24 * 60

\* The two jobs: every().day.at("08:00") and every().day.at("18:00").
JobTimes == <<[hour |-> 8, minute |-> 0], [hour |-> 18, minute |-> 0]>>

minute_of(at) == at.hour * 60 + at.minute

\* The clock the scheduler is started at: midnight, one minute before the
\* first job, and between the two jobs.
StartClocks == {0, minute_of(JobTimes[1]) - 1, minute_of(JobTimes[1]) + 1}

\* every().day.at(...).do(...): the job's first run is today at that time if
\* it is still to come, else tomorrow.
first_run(now, at) ==
    IF now % MinutesPerDay < minute_of(at)
    THEN (now \div MinutesPerDay) * MinutesPerDay + minute_of(at)
    ELSE (now \div MinutesPerDay + 1) * MinutesPerDay + minute_of(at)

\* The ways main.main (run_news_agent) ends: the end of the try block (line
\* 68), the early return on no news (line 42), an exception of lines 24-28,
\* which are outside the try block, and an exception inside the try block,
\* which reaches the handler of lines 70-72.
AgentOutcomes == {"completed", "no_news", "raised_outside_try", "handler_reached"}

\* How run_news_agent() leaves for its caller: the handler of lines 70-72
\* calls sys.exit(1), which raises SystemExit.
agent_leaves(outcome) ==
    IF outcome = "handler_reached" THEN "SystemExit"
    ELSE IF outcome = "raised_outside_try" THEN "Exception"
    ELSE "return"

\* scheduled_job (lines 24-30): `except Exception` logs an Exception and
\* returns; SystemExit is a BaseException and is not caught.
job_leaves(agent_exit) == IF agent_exit = "Exception" THEN "return" ELSE agent_exit

\* The handlers of scheduler.main (lines 55-58): KeyboardInterrupt and
\* Exception end main normally; SystemExit leaves the process.
loop_leaves(exception) ==
    IF exception \in {"KeyboardInterrupt", "Exception"} THEN "stopped" ELSE "exited"

\* The jobs schedule.run_pending() finds due.
due_jobs == {j \in DOMAIN next_run : next_run[j] <= sched_clock}

\* run_pending runs the due jobs in the order of their next_run.
due_job == CHOOSE j \in due_jobs : \A k \in due_jobs : next_run[j] <= next_run[k]

\* scheduler.main up to the loop (lines 36-48): both jobs are registered.
SchedInit ==
    /\ env = NoEnv
    /\ openai_imported = FALSE
    /\ setup_pc = "new"
    /\ sorted_providers = <<>>
    /\ setup_idx = 0
    /\ probe_response = NoProbe
    /\ probe_calls = 0
    /\ ctor_failed = {}
    /\ init_raised = FALSE
    /\ available_providers = <<>>
    /\ analysis_enabled = FALSE
    /\ current_provider_index = 0
    /\ NoCall
    /\ NoFn
    /\ sched_pc = "run_pending"
    /\ sched_clock \in StartClocks
    /\ next_run = [j \in DOMAIN JobTimes |-> first_run(sched_clock, JobTimes[j])]
    /\ last_outcome = "none"

\* schedule.run_pending() (line 52) finds a job due and calls scheduled_job,
\* which calls run_news_agent (line 26).
JobStarts ==
    /\ sched_pc = "run_pending"
    /\ due_jobs # {}
    /\ sched_pc' = "agent"
    /\ UNCHANGED <<sched_clock, next_run, last_outcome>>
    /\ UNCHANGED <<setup_vars, object_vars, call_vars, fn_vars>>

\* The run of the news agent ends. When scheduled_job returns, schedule sets
\* the job's next run to the next day and run_pending goes on; when an
\* exception leaves scheduled_job, it leaves run_pending and the loop too.
AgentEnds ==
    /\ sched_pc = "agent"
    /\ \E outcome \in AgentOutcomes :
          /\ last_outcome' = outcome
          /\ IF job_leaves(agent_leaves(outcome)) = "return"
             THEN /\ sched_pc' = "run_pending"
                  /\ next_run' = [next_run EXCEPT ![due_job] = @ + MinutesPerDay]
             ELSE /\ sched_pc' = loop_leaves(job_leaves(agent_leaves(outcome)))
                  /\ UNCHANGED next_run
    /\ UNCHANGED sched_clock
    /\ UNCHANGED <<setup_vars, object_vars, call_vars, fn_vars>>

\* run_pending returns with no job left due: time.sleep(60) starts.
NothingPending ==
    /\ sched_pc = "run_pending"
    /\ due_jobs = {}
    /\ sched_pc' = "sleep"
    /\ UNCHANGED <<sched_clock, next_run, last_outcome>>
    /\ UNCHANGED <<setup_vars, object_vars, call_vars, fn_vars>>

\* time.sleep(60) returns (line 53).
SleepEnds ==
    /\ sched_pc = "sleep"
    /\ sched_clock + SleepSeconds \div 60 < MaxDays * MinutesPerDay
    /\ sched_clock' = sched_clock + SleepSeconds \div 60
    /\ sched_pc' = "run_pending"
    /\ UNCHANGED <<next_run, last_outcome>>
    /\ UNCHANGED <<setup_vars, object_vars, call_vars, fn_vars>>

\* Ctrl+C during the sleep (line 55).
Interrupted ==
    /\ sched_pc = "sleep"
    /\ sched_pc' = loop_leaves("KeyboardInterrupt")
    /\ UNCHANGED <<sched_clock, next_run, last_outcome>>
    /\ UNCHANGED <<setup_vars, object_vars, call_vars, fn_vars>>

SchedNext ==
    \/ JobStarts
    \/ AgentEnds
    \/ NothingPending
    \/ SleepEnds
    \/ Interrupted

SpecScheduler == SchedInit /\ [][SchedNext]_vars

\* C30  The scheduler survives a failed run: once a scheduled run of the
\* news agent has reached the top-level error handler of main.main, the
\* scheduler is still in its loop (running the pending jobs, sleeping, or in
\* a later run of the agent), or was stopped by the user; the failed run
\* does not end the process.
C30_SchedulerSurvivesFailedRun ==
    last_outcome = "handler_reached" => sched_pc # "exited"

=============================================================================
